---- MODULE Spec2Model ----
(***************************************************************************)
(* Deployment orchestration of void-operations/gate: the Agent runtime     *)
(* loop and Deployment Executor of src/agent/Program.cs, against the       *)
(* Master's Agent Registry and Deployment Ledger.                          *)
(*                                                                         *)
(* Program.cs holds two variants of class Program: the first (lines        *)
(* 14-179) only registers and heartbeats, the second (lines 198-987) also  *)
(* polls and executes deployments.  Spec is the second variant;            *)
(* SpecVariants lets the process be either.                                *)
(***************************************************************************)
EXTENDS Integers, Sequences, FiniteSets, TLC

VARIABLES
    variant,        \* which Program class runs: 1 (lines 14-179) or 2 (lines 198-987)
    agentPlatform,  \* Program.agentPlatform
    agentId,        \* Program.agentId ("" in C# is NoId here)
    running,        \* Program.running
    mpc,            \* position of Main
    pc,             \* position of the heartbeat task (the while loop of Main)
    xpc,            \* position of ExecuteDeployment
    active,         \* number of ExecuteDeployment calls that have not returned
    dep,            \* the DeploymentResponse being executed
    idx,            \* loop index i of ExecuteDeployment (1-based)
    release,        \* the ReleaseResponse fetched for release_ids[i]
    downloadPath,   \* the path DownloadReleaseArtifacts returned
    report,         \* the (status, error_message) ExecuteDeployment is about to report
    dlError,        \* message logged by the catch of DownloadReleaseArtifacts
    staging,        \* ~/.agent/downloads: set of [path, size]
    registry,       \* Master: Agent records
    ledger,         \* Master: Deployment records, in creation order
    tickLog,        \* requests and steps of the tick in flight, in order
    lastReq,        \* the last request the agent sent that carries an agent id
    unregCalls,     \* number of Unregister requests sent
    githubAssets,   \* githubRelease.assets, when asset selection is exercised on its own
    selectedAsset,  \* selectedAsset of the last DownloadReleaseArtifacts call that chose one
    answers,        \* the tag that call asked the artifact host for, and the host's answers
    chmod           \* how the chmod process InstallSoftware started has ended, until
                    \* VerifyInstallation is called

vars == <<variant, agentPlatform, agentId, running, mpc, pc, xpc, active, dep, idx,
          release, downloadPath, report, dlError, staging, registry, ledger,
          tickLog, lastReq, unregCalls, githubAssets, selectedAsset, answers, chmod>>

\* what no step outside ExecuteDeployment changes
agentVars == <<variant, agentPlatform, githubAssets, selectedAsset, answers, chmod>>
execVars == <<dep, idx, release, downloadPath, report, dlError, staging>>

(***************************************************************************)
(* Bounds                                                                  *)
(***************************************************************************)
MaxDeployments == 1

\* deployments in the Ledger when it is exercised on its own
MaxLedger == 3

\* assets in a release when asset selection is exercised on its own
MaxAssets == 3

(***************************************************************************)
(* Values                                                                  *)
(***************************************************************************)
NoId == [src |-> "none"]
NoDep == [id |-> 0]
NoRelease == [id |-> "null"]
NoPath == <<>>
NoMsg == <<"">>
NoReport == [status |-> "none", error_message |-> NoMsg]
NoReq == [op |-> "none", id |-> NoId]
NoAsset == [name |-> <<>>, size |-> 0, content_type |-> <<>>]

agentName == "host"

\* the values of Environment.OSVersion.Platform
PlatformIDs == {"Win32S", "Win32Windows", "Win32NT", "WinCE", "Unix", "Xbox", "MacOSX", "Other"}

\* mutant: a Unix host is named linux
GetPlatformLinux(p) ==
    IF p = "Win32NT" THEN "windows"
    ELSE IF p = "MacOSX" THEN "macos"
    ELSE IF p = "Unix" THEN "linux"
    ELSE "unknown"

GetPlatform(p) ==
    IF p = "Win32NT" THEN "windows"
    ELSE IF p = "MacOSX" \/ p = "Unix" THEN "macos"
    ELSE "unknown"

\* the values agentPlatform is initialized with
Platforms == {GetPlatform(p) : p \in PlatformIDs}

\* agentPlatform as a string: the values GetPlatform returns, and "linux",
\* which the comparisons of the code name
SelectPlatforms == Platforms \cup {"linux"}

\* outcome of one HTTP call: "ok" a success response; "status" a non-success
\* response (the Master changed nothing); "lost" an exception, the request
\* never arrived; "resplost" an exception after the Master processed it
Outcomes == {"ok", "status", "lost", "resplost"}

Delivered(o) == o \in {"ok", "resplost"}

(***************************************************************************)
(* Agent Registry (Master)                                                 *)
(***************************************************************************)
\* Register(identity, ...) -> AgentId: upsert on (platform, name)
RegistryRegister(reg, name, platform) ==
    IF \E a \in reg : a.name = name /\ a.platform = platform
    THEN {IF a.name = name /\ a.platform = platform THEN [a EXCEPT !.fresh = TRUE] ELSE a : a \in reg}
    ELSE reg \cup {[id |-> [src |-> "registry", n |-> 1 + Cardinality(reg)],
                    name |-> name, platform |-> platform, fresh |-> TRUE]}

RegistryIdOf(reg, name, platform) ==
    (CHOOSE a \in reg : a.name = name /\ a.platform = platform).id

\* Unregister(AgentId): removing an unknown id is a no-op
RegistryUnregister(reg, id) == {a \in reg : a.id # id}

\* time passes: every last_seen is now older than the current tick
RegistryAge(reg) == {[a EXCEPT !.fresh = FALSE] : a \in reg}

(***************************************************************************)
(* Strings: a C# string is the sequence of its characters                  *)
(***************************************************************************)
Min(S) == CHOOSE m \in S : \A n \in S : m <= n

\* string.ToLower, on the letters that occur in the model's names
LowerChar(c) ==
    CASE c = "A" -> "a" [] c = "B" -> "b" [] c = "C" -> "c" [] c = "E" -> "e"
      [] c = "P" -> "p" [] c = "R" -> "r" [] c = "S" -> "s" [] c = "X" -> "x"
      [] c = "Z" -> "z" [] OTHER -> c

ToLower(s) == [k \in 1..Len(s) |-> LowerChar(s[k])]

\* s has p at position k
HasAt(s, p, k) == k + Len(p) - 1 <= Len(s) /\ SubSeq(s, k, k + Len(p) - 1) = p

\* string.Contains
Contains(s, p) == \E k \in 1..(Len(s) + 1) : HasAt(s, p, k)

\* string.EndsWith
EndsWith(s, p) == Len(p) <= Len(s) /\ SubSeq(s, Len(s) - Len(p) + 1, Len(s)) = p

\* string.TrimEnd('/')
RECURSIVE TrimEndSlash(_)
TrimEndSlash(s) ==
    IF s # <<>> /\ s[Len(s)] = "/" THEN TrimEndSlash(SubSeq(s, 1, Len(s) - 1)) ELSE s

\* Path.GetExtension: from the last '.', "" when there is none, when it is the
\* last character, or when a directory separator follows it
LastDot(s) ==
    LET dots == {k \in 1..Len(s) : s[k] = "." /\ \A j \in (k + 1)..Len(s) : s[j] \notin {".", "/"}}
    IN  IF dots = {} THEN 0 ELSE CHOOSE k \in dots : TRUE

GetExtension(s) ==
    IF LastDot(s) = 0 \/ LastDot(s) = Len(s) THEN <<>> ELSE SubSeq(s, LastDot(s), Len(s))

GitHubPrefix == <<"h", "t", "t", "p", "s", ":", "/", "/", "g", "i", "t", "h", "u", "b", ".", "c", "o", "m", "/">>
UrlApp == <<"h", "t", "t", "p", "s", ":", "/", "/", "g", "i", "t", "h", "u", "b", ".", "c", "o", "m", "/", "a", "c", "m", "e", "/", "a", "p", "p", "/">>
UrlKit == <<"h", "t", "t", "p", "s", ":", "/", "/", "g", "i", "t", "h", "u", "b", ".", "c", "o", "m", "/", "a", "c", "m", "e", "/", "k", "i", "t">>
UrlFork == <<"h", "t", "t", "p", "s", ":", "/", "/", "g", "i", "t", "h", "u", "b", ".", "c", "o", "m", "/", "f", "o", "r", "k", "/", "a", "p", "p">>
UrlBad == <<"h", "t", "t", "p", "s", ":", "/", "/", "g", "i", "t", "l", "a", "b", ".", "c", "o", "m", "/", "a", "c", "m", "e", "/", "a", "p", "p">>
UrlReleases == <<"h", "t", "t", "p", "s", ":", "/", "/", "g", "i", "t", "h", "u", "b", ".", "c", "o", "m", "/", "a", "c", "m", "e", "/", "a", "p", "p", "/", "r", "e", "l", "e", "a", "s", "e", "s", "/">>
UrlOwnerOnly == <<"h", "t", "t", "p", "s", ":", "/", "/", "g", "i", "t", "h", "u", "b", ".", "c", "o", "m", "/", "a", "c", "m", "e">>
UrlPrefixed == <<"g", "i", "t", "+", "h", "t", "t", "p", "s", ":", "/", "/", "g", "i", "t", "h", "u", "b", ".", "c", "o", "m", "/", "a", "c", "m", "e", "/", "a", "p", "p">>
TagV1 == <<"v", "1">>
TagV2 == <<"v", "2">>
KwSource == <<"s", "o", "u", "r", "c", "e">>
KwSrc == <<"s", "r", "c">>
KwSourcecode == <<"s", "o", "u", "r", "c", "e", "c", "o", "d", "e">>
ExtExe == <<".", "e", "x", "e">>
ExtMsi == <<".", "m", "s", "i">>
ExtZip == <<".", "z", "i", "p">>
ExtDmg == <<".", "d", "m", "g">>
ExtPkg == <<".", "p", "k", "g">>
ExtAppZip == <<".", "a", "p", "p", ".", "z", "i", "p">>
ExtDeb == <<".", "d", "e", "b">>
ExtRpm == <<".", "r", "p", "m">>
ExtTarGz == <<".", "t", "a", "r", ".", "g", "z">>
CtZip == <<"z", "i", "p">>
CtDmg == <<"d", "m", "g">>
CtExe == <<"e", "x", "e">>
CtOctet == <<"a", "p", "p", "l", "i", "c", "a", "t", "i", "o", "n", "/", "o", "c", "t", "e", "t", "-", "s", "t", "r", "e", "a", "m">>
CtAppZip == <<"a", "p", "p", "l", "i", "c", "a", "t", "i", "o", "n", "/", "z", "i", "p">>
CtAppDmg == <<"a", "p", "p", "l", "i", "c", "a", "t", "i", "o", "n", "/", "x", "-", "d", "m", "g">>
CtAppExe == <<"a", "p", "p", "l", "i", "c", "a", "t", "i", "o", "n", "/", "x", "-", "e", "x", "e">>
CtZipExe == <<"a", "p", "p", "l", "i", "c", "a", "t", "i", "o", "n", "/", "z", "i", "p", "+", "e", "x", "e">>
CtDmgExe == <<"a", "p", "p", "l", "i", "c", "a", "t", "i", "o", "n", "/", "d", "m", "g", "+", "e", "x", "e">>
NameTool == <<"t", "o", "o", "l">>
NameSourceZip == <<"a", "p", "p", "-", "s", "o", "u", "r", "c", "e", ".", "z", "i", "p">>
NameExe == <<"a", "p", "p", ".", "e", "x", "e">>
NameDmg == <<"a", "p", "p", ".", "d", "m", "g">>
NameZip == <<"a", "p", "p", ".", "z", "i", "p">>
NameBin == <<"d", "a", "t", "a", ".", "b", "i", "n">>
NameExeUpper == <<"A", "P", "P", ".", "E", "X", "E">>
NameSrcUpper == <<"A", "p", "p", "-", "S", "R", "C", ".", "z", "i", "p">>

(***************************************************************************)
(* Release Catalog (Master) and the artifact host                          *)
(***************************************************************************)
Catalog ==
    {[id |-> "r1", tag_name |-> TagV1, download_url |-> UrlApp],
     [id |-> "r2", tag_name |-> TagV2, download_url |-> UrlKit],
     [id |-> "r3", tag_name |-> TagV1, download_url |-> UrlBad],
     [id |-> "r4", tag_name |-> TagV2, download_url |-> UrlFork],
     [id |-> "r5", tag_name |-> <<>>, download_url |-> UrlApp],
     [id |-> "r6", tag_name |-> TagV1, download_url |-> UrlReleases],
     [id |-> "r7", tag_name |-> TagV1, download_url |-> UrlOwnerOnly],
     [id |-> "r8", tag_name |-> TagV1, download_url |-> UrlPrefixed],
     [id |-> "r9", tag_name |-> TagV1, download_url |-> <<>>]}

\* GET /releases/{id}
CatalogGet(id) ==
    IF \E r \in Catalog : r.id = id THEN CHOOSE r \in Catalog : r.id = id ELSE NoRelease

Asset(name, size) == [name |-> name, size |-> size, content_type |-> CtOctet]

AssetOfType(name, size, ct) == [name |-> name, size |-> size, content_type |-> ct]

\* asset lists the artifact host may answer with
AssetLists ==
    {<<Asset(NameSourceZip, 9), Asset(NameExe, 5), Asset(NameDmg, 7)>>,
     <<Asset(NameSrcUpper, 3)>>,
     <<>>}

(***************************************************************************)
(* DownloadReleaseArtifacts: pure parts                                    *)
(***************************************************************************)
\* end of the maximal run of non-'/' characters that starts at k (k-1: empty)
RECURSIVE RunEnd(_, _)
RunEnd(s, k) == IF k > Len(s) \/ s[k] = "/" THEN k - 1 ELSE RunEnd(s, k + 1)

\* mutant: the pattern is anchored, ^https://github\.com/([^/]+)/([^/]+)$
MatchAtAnchored(s, k) ==
    LET o1 == k + Len(GitHubPrefix)
        oe == RunEnd(s, o1)
    IN  /\ k = 1
        /\ HasAt(s, GitHubPrefix, k)
        /\ oe >= o1
        /\ oe + 1 <= Len(s)
        /\ RunEnd(s, oe + 2) >= oe + 2
        /\ RunEnd(s, oe + 2) = Len(s)

\* the pattern https://github\.com/([^/]+)/([^/]+) matches s at position k
MatchAt(s, k) ==
    LET o1 == k + Len(GitHubPrefix)
        oe == RunEnd(s, o1)
    IN  /\ HasAt(s, GitHubPrefix, k)
        /\ oe >= o1
        /\ oe + 1 <= Len(s)
        /\ RunEnd(s, oe + 2) >= oe + 2

\* Regex.Match(download_url.TrimEnd('/'), pattern): owner and repo
ParseGitHubUrl(url) ==
    LET s == TrimEndSlash(url)
        ks == {k \in 1..Len(s) : MatchAt(s, k)}
    IN  IF ks = {} THEN [ok |-> FALSE, url |-> s, owner |-> <<>>, repo |-> <<>>]
        ELSE LET k == Min(ks)
                 o1 == k + Len(GitHubPrefix)
                 oe == RunEnd(s, o1)
             IN  [ok |-> TRUE, url |-> s, owner |-> SubSeq(s, o1, oe),
                  repo |-> SubSeq(s, oe + 2, RunEnd(s, oe + 2))]

\* mutant: src is no keyword
sourceCodeKeywordsNoSrc == {KwSource, KwSourcecode}

sourceCodeKeywords == {KwSource, KwSrc, KwSourcecode}

IsSourceArchive(name) == \E kw \in sourceCodeKeywords : Contains(ToLower(name), kw)

executableAssets(assets) == SelectSeq(assets, LAMBDA a : ~IsSourceArchive(a.name))

platformExtensions(platform) ==
    IF platform = "windows" THEN <<ExtExe, ExtMsi, ExtZip>>
    ELSE IF platform = "macos" THEN <<ExtDmg, ExtPkg, ExtAppZip, ExtZip>>
    ELSE <<ExtDeb, ExtRpm, ExtTarGz, ExtZip>>

MatchesPlatform(a, platform) ==
    LET exts == platformExtensions(platform)
    IN  \E j \in 1..Len(exts) : EndsWith(ToLower(a.name), ToLower(exts[j]))

\* mutant: the last-listed of the largest candidates
LargestAssetLast(cands) ==
    LET best == {k \in 1..Len(cands) : \A j \in 1..Len(cands) : cands[j].size <= cands[k].size}
    IN  cands[CHOOSE k \in best : \A j \in best : j <= k]

\* OrderByDescending(a => a.size).First(): a stable sort, so the first of the largest
LargestAsset(cands) ==
    LET best == {k \in 1..Len(cands) : \A j \in 1..Len(cands) : cands[j].size <= cands[k].size}
    IN  cands[Min(best)]

\* position in platformExtensions of the first extension a ends with
ExtRank(a, platform) ==
    LET exts == platformExtensions(platform)
    IN  Min({j \in 1..Len(exts) : EndsWith(ToLower(a.name), ToLower(exts[j]))})

\* mutant: the candidate with the highest-priority extension, first-listed among those
SelectAssetByPriority(cands, platform) ==
    LET hits == {k \in 1..Len(cands) : MatchesPlatform(cands[k], platform)}
        best == {k \in hits : \A j \in hits : ExtRank(cands[k], platform) <= ExtRank(cands[j], platform)}
    IN  IF hits # {} THEN cands[Min(best)] ELSE LargestAsset(cands)

\* mutant: always the largest candidate
SelectAssetLargest(cands, platform) == LargestAsset(cands)

\* FirstOrDefault(platform match), else the largest; cands is not empty
SelectAsset(cands, platform) ==
    LET hits == {k \in 1..Len(cands) : MatchesPlatform(cands[k], platform)}
    IN  IF hits # {} THEN cands[Min(hits)] ELSE LargestAsset(cands)

\* lines 627-689 of DownloadReleaseArtifacts: the asset to download, or none
\* when the release has no asset or only source archives
SelectedAssetOf(list, platform) ==
    IF Len(list) = 0 THEN NoAsset
    ELSE IF Len(executableAssets(list)) = 0 THEN NoAsset
    ELSE SelectAsset(executableAssets(list), platform)

\* mutant: the content type is tried for exe first, then dmg, then zip
FileExtensionExeFirst(a) ==
    IF GetExtension(a.name) # <<>> THEN GetExtension(a.name)
    ELSE IF Contains(a.content_type, CtExe) THEN ExtExe
    ELSE IF Contains(a.content_type, CtDmg) THEN ExtDmg
    ELSE IF Contains(a.content_type, CtZip) THEN ExtZip
    ELSE <<>>

\* the extension of the staged file
FileExtension(a) ==
    IF GetExtension(a.name) # <<>> THEN GetExtension(a.name)
    ELSE IF Contains(a.content_type, CtZip) THEN ExtZip
    ELSE IF Contains(a.content_type, CtDmg) THEN ExtDmg
    ELSE IF Contains(a.content_type, CtExe) THEN ExtExe
    ELSE <<>>

FileName(repo, tag, ext) == repo \o <<"-">> \o tag \o ext

\* mutant: writing a file clears the staging directory
WriteFileOnly(files, path, size) == {[path |-> path, size |-> size]}

\* FileMode.Create: the file at path is replaced
WriteFile(files, path, size) == {f \in files : f.path # path} \cup {[path |-> path, size |-> size]}

FileExists(files, path) == \E f \in files : f.path = path

FileLength(files, path) == (CHOOSE f \in files : f.path = path).size

\* the environment of one DownloadReleaseArtifacts call: the artifact host's
\* answer to release-by-tag, its answer to the asset download, the content's
\* size, and what the filesystem does
DlEnv(fs, api, assets, asset, size) ==
    [fs |-> fs, api |-> api, assets |-> assets, asset |-> asset, size |-> size]

\* the requests reqs of a call made in e with their answers: owner, repo and
\* tag of the release-by-tag request and its answer, the assets listed, and
\* the answer to the asset download
Answers(e, reqs, parsed, tag) ==
    [owner |-> IF Len(reqs) >= 1 THEN parsed.owner ELSE <<>>,
     repo |-> IF Len(reqs) >= 1 THEN parsed.repo ELSE <<>>,
     tag |-> IF Len(reqs) >= 1 THEN tag ELSE <<>>,
     api |-> IF Len(reqs) >= 1 THEN e.api ELSE "none",
     assets |-> IF Len(reqs) >= 1 /\ e.api = "ok" THEN e.assets ELSE <<>>,
     asset |-> IF Len(reqs) >= 2 THEN e.asset ELSE "none"]

\* no request sent
NoAnswers == [owner |-> <<>>, repo |-> <<>>, tag |-> <<>>, api |-> "none", assets |-> <<>>, asset |-> "none"]

DownloadEnvsOf(lists) ==
    {DlEnv("nodir", "ok", <<>>, "ok", 0)}
    \cup {DlEnv("ok", o, <<>>, "ok", 0) : o \in {"status", "lost"}}
    \cup {DlEnv("ok", "ok", a, o, 0) : a \in lists, o \in {"status", "lost"}}
    \cup {DlEnv(f, "ok", a, "ok", 0) : a \in lists, f \in {"openfail", "copyfail"}}
    \cup {DlEnv("ok", "ok", a, "ok", n) : a \in lists, n \in {0, 1}}

DownloadEnvs == DownloadEnvsOf(AssetLists)

\* the owner and repo of every download_url of the catalog, parsed once
ParsedUrl == [u \in {r.download_url : r \in Catalog} |-> ParseGitHubUrl(u)]

DlFail(msg, reqs, files) == [path |-> NoPath, error |-> msg, files |-> files, reqs |-> reqs]

\* DownloadReleaseArtifacts(release, tag): the path, or NoPath with the message
\* its catch logs; files is the staging directory afterwards, reqs the requests
\* sent to the artifact host
DownloadReleaseArtifacts(rel, tag, platform, files, e) ==
    LET parsed == ParsedUrl[rel.download_url]
        cands == executableAssets(e.assets)
        path == FileName(parsed.repo, tag, FileExtension(SelectAsset(cands, platform)))
    IN  IF rel.download_url = <<>> THEN DlFail(<<"Release download URL is empty">>, <<>>, files)
        ELSE IF tag = <<>> THEN DlFail(<<"Release tag name is empty">>, <<>>, files)
        ELSE IF ~parsed.ok THEN DlFail(<<"Invalid GitHub URL format: ", parsed.url>>, <<>>, files)
        ELSE IF e.fs = "nodir" THEN DlFail(<<"IOException">>, <<>>, files)
        ELSE IF e.api = "lost" THEN DlFail(<<"HttpRequestException">>, <<"api">>, files)
        ELSE IF e.api = "status"
             THEN DlFail(<<"Failed to fetch release from GitHub API: ", "NotFound">>, <<"api">>, files)
        ELSE IF Len(e.assets) = 0 THEN DlFail(<<"No assets found for release ", tag>>, <<"api">>, files)
        ELSE IF Len(cands) = 0
             THEN DlFail(<<"No executable assets found (excluding source code) for release ", tag>>,
                         <<"api">>, files)
        ELSE IF e.asset = "lost" THEN DlFail(<<"HttpRequestException">>, <<"api", "asset">>, files)
        ELSE IF e.asset = "status"
             THEN DlFail(<<"Failed to download asset: ", "NotFound">>, <<"api", "asset">>, files)
        ELSE IF e.fs = "openfail" THEN DlFail(<<"IOException">>, <<"api", "asset">>, files)
        ELSE IF e.fs = "copyfail"
             THEN DlFail(<<"IOException">>, <<"api", "asset">>, WriteFile(files, path, 0))
        ELSE [path |-> path, error |-> NoMsg, files |-> WriteFile(files, path, e.size),
              reqs |-> <<"api", "asset">>]

\* how the chmod process may end: exit code 0, a non-zero exit code, or
\* Process.Start throws
ChmodOutcomes == {"ok", "exit1", "nostart"}

\* whether InstallSoftware starts chmod +x
RunsChmod(files, path, platform) == FileExists(files, path) /\ platform \in {"macos", "linux"}

\* InstallSoftware: false only when the file is missing; the exit code of
\* chmod is not tested and an exception of Process.Start is caught and logged
InstallSoftware(files, path, platform, ch) ==
    IF ~FileExists(files, path) THEN FALSE
    ELSE IF platform \in {"macos", "linux"} THEN TRUE
    ELSE TRUE

\* mutant: on windows the path must end with .exe in lower case
VerifyInstallationCaseSensitive(files, path, platform) ==
    IF ~FileExists(files, path) THEN FALSE
    ELSE IF FileLength(files, path) = 0 THEN FALSE
    ELSE IF platform \in {"macos", "linux"} THEN TRUE
    ELSE IF platform = "windows" THEN EndsWith(path, ExtExe)
    ELSE TRUE

\* mutant: a file that is not empty passes on every platform
VerifyInstallationAnyExtension(files, path, platform) ==
    IF ~FileExists(files, path) THEN FALSE
    ELSE IF FileLength(files, path) = 0 THEN FALSE
    ELSE TRUE

VerifyInstallation(files, path, platform) ==
    IF ~FileExists(files, path) THEN FALSE
    ELSE IF FileLength(files, path) = 0 THEN FALSE
    ELSE IF platform \in {"macos", "linux"} THEN TRUE
    ELSE IF platform = "windows" THEN EndsWith(ToLower(path), ExtExe)
    ELSE TRUE

(***************************************************************************)
(* Deployment Ledger (Master)                                              *)
(***************************************************************************)
\* the batches an operator submits: release_ids with the version chosen for each
Batches ==
    {[release_ids |-> <<"r1", "r2">>, release_tags |-> << <<>>, TagV1 >>],
     [release_ids |-> <<"r3", "r1">>, release_tags |-> <<TagV1, TagV1>>],
     [release_ids |-> <<"r1", "r4">>, release_tags |-> <<TagV1, TagV1>>]}

\* mutant: the earliest pending deployment of any agent
LedgerNextPendingAnyAgent(led, aid) ==
    LET mine == {k \in 1..Len(led) : led[k].status = "pending"}
    IN  IF mine = {} THEN NoDep
        ELSE LET k == CHOOSE k \in mine : \A j \in mine : led[k].created_at <= led[j].created_at
             IN  [id |-> led[k].id, release_ids |-> led[k].release_ids,
                  release_tags |-> led[k].release_tags]

\* Create(agent_id, release_ids, release_versions)
LedgerCanCreate(led, reg, aid, b) ==
    /\ \E a \in reg : a.id = aid
    /\ Len(b.release_ids) > 0
    /\ Len(b.release_ids) = Len(b.release_tags)
    /\ \A k \in 1..Len(b.release_ids) : CatalogGet(b.release_ids[k]) # NoRelease

LedgerCreate(led, aid, b) ==
    Append(led, [id |-> Len(led) + 1, agent_id |-> aid, release_ids |-> b.release_ids,
                 release_tags |-> b.release_tags, status |-> "pending",
                 created_at |-> Len(led) + 1, error_message |-> NoMsg])

\* mutant: the pending deployment of the agent created last
LedgerNextPendingLatest(led, aid) ==
    LET mine == {k \in 1..Len(led) : led[k].agent_id = aid /\ led[k].status = "pending"}
    IN  IF mine = {} THEN NoDep
        ELSE LET k == CHOOSE k \in mine : \A j \in mine : led[k].created_at >= led[j].created_at
             IN  [id |-> led[k].id, release_ids |-> led[k].release_ids,
                  release_tags |-> led[k].release_tags]

\* mutant: the deployment of the agent created first, whatever its status
LedgerNextPendingAnyStatus(led, aid) ==
    LET mine == {k \in 1..Len(led) : led[k].agent_id = aid}
    IN  IF mine = {} THEN NoDep
        ELSE LET k == CHOOSE k \in mine : \A j \in mine : led[k].created_at <= led[j].created_at
             IN  [id |-> led[k].id, release_ids |-> led[k].release_ids,
                  release_tags |-> led[k].release_tags]

\* NextPending(agent_id): the pending deployment of the agent created first
LedgerNextPending(led, aid) ==
    LET mine == {k \in 1..Len(led) : led[k].agent_id = aid /\ led[k].status = "pending"}
    IN  IF mine = {} THEN NoDep
        ELSE LET k == CHOOSE k \in mine : \A j \in mine : led[k].created_at <= led[j].created_at
             IN  [id |-> led[k].id, release_ids |-> led[k].release_ids,
                  release_tags |-> led[k].release_tags]

\* mutant: only a pending deployment takes a completion report
LedgerCompleteFirstWins(led, id, status, msg) ==
    [k \in 1..Len(led) |->
        IF led[k].id = id /\ led[k].status = "pending"
        THEN [led[k] EXCEPT !.status = status, !.error_message = msg]
        ELSE led[k]]

\* Complete(deployment_id, status, error_message); an unknown id changes nothing
LedgerComplete(led, id, status, msg) ==
    [k \in 1..Len(led) |->
        IF led[k].id = id THEN [led[k] EXCEPT !.status = status, !.error_message = msg]
        ELSE led[k]]

(***************************************************************************)
(* Agent: Main and the heartbeat task                                      *)
(***************************************************************************)
Entry(op, i, ok) == [op |-> op, i |-> i, ok |-> ok]

\* the file the download of release i wrote to the staging directory, if any:
\* the file at the returned path, or the file a failed copy left behind
Written(before, after, path, i) ==
    IF path # NoPath
    THEN <<[op |-> "write", i |-> i, ok |-> TRUE, file |-> CHOOSE f \in after : f.path = path]>>
    ELSE IF after \subseteq before THEN <<>>
    ELSE <<[op |-> "write", i |-> i, ok |-> TRUE, file |-> CHOOSE f \in after \ before : TRUE]>>

\* the body registration and heartbeat post to /agents/register
RegisterRequest == [name |-> agentName, platform |-> agentPlatform]

\* mutant: the heartbeat posts another name than the registration
HeartbeatRequestOtherName == [name |-> "", platform |-> agentPlatform]

\* mutant: the heartbeat posts another platform than the registration
HeartbeatRequestOtherPlatform == [name |-> agentName, platform |-> "linux"]

HeartbeatRequest == [name |-> agentName, platform |-> agentPlatform]

\* mutant: the tick polls before it sends the heartbeat
TickBodyPollFirst == IF variant = 1 THEN <<"heartbeat">> ELSE <<"check", "heartbeat">>

\* mutant: the tick sends the heartbeat and does not poll
TickBodyHeartbeatOnly == <<"heartbeat">>

\* the calls of one tick, in order
TickBody == IF variant = 1 THEN <<"heartbeat">> ELSE <<"heartbeat", "check">>

\* where the task goes when call c of the tick has returned
AfterCall(c) ==
    LET k == CHOOSE k \in 1..Len(TickBody) : TickBody[k] = c
    IN  IF k < Len(TickBody) THEN TickBody[k + 1] ELSE "endtick"

\* mutant: an exception of the heartbeat call escapes and ends the task
AfterHeartbeatThrows(o) == IF o \in {"lost", "resplost"} THEN "done" ELSE AfterCall("heartbeat")

\* SendHeartbeat catches every exception and does not read the response
AfterHeartbeat(o) == AfterCall("heartbeat")

\* the inner if (running) of the loop, evaluated when Task.Delay returns
TickGuard == running

\* mutant: Main goes on at the signal without awaiting the task
TaskAwaitedAtSignal == ~running

\* await heartbeatTask
TaskAwaited == pc = "done"

\* mutant: ExecuteDeployment is started and not awaited
AfterDispatchNoAwait == "endtick"

\* CheckForDeployment awaits ExecuteDeployment
AfterDispatch == "await"

\* the id in DELETE /agents/{id}
UnregisterId == IF variant = 1 THEN [src |-> "derived", platform |-> agentPlatform, name |-> agentName]
                ELSE agentId

\* mutant: the request is sent whatever agentId holds
UnregisterGuardAlways == TRUE

\* whether UnregisterFromMaster sends the request
UnregisterGuard == variant = 1 \/ agentId # NoId

\* Console.CancelKeyPress
Signal ==
    /\ running
    /\ mpc # "exited"
    /\ running' = FALSE
    /\ UNCHANGED <<agentVars, agentId, mpc, pc, xpc, active, execVars, registry, ledger,
                   tickLog, lastReq, unregCalls>>

\* await RegisterToMaster(); then Task.Run starts the heartbeat task
RegisterToMaster(o) ==
    /\ mpc = "register"
    /\ registry' = IF Delivered(o)
                   THEN RegistryRegister(registry, RegisterRequest.name, RegisterRequest.platform)
                   ELSE registry
    /\ agentId' = IF o = "ok" /\ variant = 2
                  THEN RegistryIdOf(registry', RegisterRequest.name, RegisterRequest.platform)
                  ELSE agentId
    /\ mpc' = "wait"
    /\ pc' = "loop"
    /\ UNCHANGED <<agentVars, running, xpc, active, execVars, ledger, tickLog, lastReq,
                   unregCalls>>

\* while (running)
LoopTest ==
    /\ pc = "loop"
    /\ pc' = IF running THEN "delay" ELSE "done"
    /\ UNCHANGED <<agentVars, agentId, running, mpc, xpc, active, execVars, registry, ledger,
                   tickLog, lastReq, unregCalls>>

\* await Task.Delay(10000); if (running): a tick starts
DelayElapsed ==
    /\ pc = "delay"
    /\ IF TickGuard
       THEN /\ pc' = TickBody[1]
            /\ registry' = RegistryAge(registry)
       ELSE /\ pc' = "loop"
            /\ UNCHANGED registry
    /\ UNCHANGED <<agentVars, agentId, running, mpc, xpc, active, execVars, ledger,
                   tickLog, lastReq, unregCalls>>

\* mutant: the heartbeat stores the id of its response, as the registration does
HeartbeatStoredIdFromResponse(o, reg) ==
    IF o = "ok" THEN RegistryIdOf(reg, HeartbeatRequest.name, HeartbeatRequest.platform)
    ELSE agentId

\* agentId after SendHeartbeat: the response body is not read
HeartbeatStoredId(o, reg) == agentId

\* await SendHeartbeat(): the response is not read
SendHeartbeat(o) ==
    /\ pc = "heartbeat"
    /\ registry' = IF Delivered(o)
                   THEN RegistryRegister(registry, HeartbeatRequest.name, HeartbeatRequest.platform)
                   ELSE registry
    /\ tickLog' = Append(tickLog, Entry("heartbeat", 0, o = "ok"))
    /\ pc' = AfterHeartbeat(o)
    /\ agentId' = HeartbeatStoredId(o, registry')
    /\ UNCHANGED <<agentVars, running, mpc, xpc, active, execVars, ledger,
                   lastReq, unregCalls>>

\* mutant: the agent drops every deployment the poll returns
DeploymentReceivedNever(d) == FALSE

\* deployment != null && !string.IsNullOrEmpty(deployment.id)
DeploymentReceived(d) == d # NoDep

\* mutant: the body of a non-success response is read as well
PollSucceededAnyResponse(o) == o \in {"ok", "status"}

\* response.IsSuccessStatusCode, with no exception up to the deserialization
PollSucceeded(o) == o = "ok"

\* mutant: the poll is sent whatever agentId holds
PollGuardAlways == TRUE

\* !string.IsNullOrEmpty(agentId): CheckForDeployment returns at once otherwise
PollGuard == agentId # NoId

\* await CheckForDeployment(), up to the call of ExecuteDeployment
CheckForDeployment(o) ==
    /\ pc = "check"
    /\ IF ~PollGuard
       THEN /\ pc' = AfterCall("check")
            /\ UNCHANGED <<xpc, active, dep, tickLog, lastReq>>
       ELSE /\ lastReq' = [op |-> "poll", id |-> agentId]
            /\ tickLog' = Append(tickLog, Entry("poll", 0, o = "ok"))
            /\ IF PollSucceeded(o) /\ DeploymentReceived(LedgerNextPending(ledger, agentId))
               THEN /\ dep' = LedgerNextPending(ledger, agentId)
                    /\ xpc' = "start"
                    /\ active' = active + 1
                    /\ pc' = AfterDispatch
               ELSE /\ pc' = AfterCall("check")
                    /\ UNCHANGED <<xpc, active, dep>>
    /\ UNCHANGED <<agentVars, agentId, running, mpc, idx, release, downloadPath, report,
                   dlError, staging, registry, ledger, unregCalls>>

\* ExecuteDeployment has returned to CheckForDeployment
AwaitExecute ==
    /\ pc = "await"
    /\ xpc = "idle"
    /\ pc' = AfterCall("check")
    /\ UNCHANGED <<agentVars, agentId, running, mpc, xpc, active, execVars, registry, ledger,
                   tickLog, lastReq, unregCalls>>

\* the end of the loop body
EndTick ==
    /\ pc = "endtick"
    /\ pc' = "loop"
    /\ tickLog' = <<>>
    /\ registry' = RegistryAge(registry)
    /\ UNCHANGED <<agentVars, agentId, running, mpc, xpc, active, execVars, ledger,
                   lastReq, unregCalls>>

\* await heartbeatTask
MainAwait ==
    /\ mpc = "wait"
    /\ TaskAwaited
    /\ mpc' = "unregister"
    /\ UNCHANGED <<agentVars, agentId, running, pc, xpc, active, execVars, registry, ledger,
                   tickLog, lastReq, unregCalls>>

\* await UnregisterFromMaster(); Main returns
UnregisterFromMaster(o) ==
    /\ mpc = "unregister"
    /\ IF UnregisterGuard
       THEN /\ lastReq' = [op |-> "unregister", id |-> UnregisterId]
            /\ unregCalls' = unregCalls + 1
            /\ registry' = IF Delivered(o) THEN RegistryUnregister(registry, UnregisterId)
                           ELSE registry
       ELSE UNCHANGED <<lastReq, unregCalls, registry>>
    /\ mpc' = "exited"
    /\ UNCHANGED <<agentVars, agentId, running, pc, xpc, active, execVars, ledger, tickLog>>

(***************************************************************************)
(* Agent: ExecuteDeployment                                                *)
(***************************************************************************)
\* release_tags[i] when there is one, else null
SelectedTag(d, i) == IF i <= Len(d.release_tags) THEN d.release_tags[i] ELSE <<>>

\* mutant: always the tag the Catalog stores for the release
TagToUseStored(d, i, rel) == rel.tag_name

\* !string.IsNullOrEmpty(selectedTag) ? selectedTag : release.tag_name
TagToUse(d, i, rel) == IF SelectedTag(d, i) # <<>> THEN SelectedTag(d, i) ELSE rel.tag_name

\* mutant: a failed download reports the message DownloadReleaseArtifacts logged
FailureMessageInner(step, rid, inner) ==
    CASE step = "start" -> <<"No releases to deploy">>
      [] step = "fetch" -> <<"Failed to fetch release details for ", rid>>
      [] step = "download" -> inner
      [] step = "install" -> <<"Failed to install software for ", rid>>
      [] step = "verify" -> <<"Installation verification failed for ", rid>>

\* the message of the exception ExecuteDeployment throws when a step fails;
\* inner is the message DownloadReleaseArtifacts logged
FailureMessage(step, rid, inner) ==
    CASE step = "start" -> <<"No releases to deploy">>
      [] step = "fetch" -> <<"Failed to fetch release details for ", rid>>
      [] step = "download" -> <<"Failed to download artifacts for ", rid>>
      [] step = "install" -> <<"Failed to install software for ", rid>>
      [] step = "verify" -> <<"Installation verification failed for ", rid>>

\* mutant: a failed step skips to the next release instead of throwing
ExecControlContinue(step, ok, i, n) ==
    IF ~ok /\ i < n THEN [xpc |-> "fetch", idx |-> i + 1, status |-> "none"]
    ELSE IF ~ok THEN [xpc |-> "report", idx |-> i, status |-> "failed"]
    ELSE IF step = "fetch" THEN [xpc |-> "download", idx |-> i, status |-> "none"]
    ELSE IF step = "download" THEN [xpc |-> "install", idx |-> i, status |-> "none"]
    ELSE IF step = "install" THEN [xpc |-> "verify", idx |-> i, status |-> "none"]
    ELSE IF i < n THEN [xpc |-> "fetch", idx |-> i + 1, status |-> "none"]
    ELSE [xpc |-> "report", idx |-> i, status |-> "success"]

\* mutant: the result of VerifyInstallation is not tested
ExecControlNoVerify(step, ok, i, n) ==
    IF ~ok /\ step # "verify" THEN [xpc |-> "report", idx |-> i, status |-> "failed"]
    ELSE IF step = "fetch" THEN [xpc |-> "download", idx |-> i, status |-> "none"]
    ELSE IF step = "download" THEN [xpc |-> "install", idx |-> i, status |-> "none"]
    ELSE IF step = "install" THEN [xpc |-> "verify", idx |-> i, status |-> "none"]
    ELSE IF i < n THEN [xpc |-> "fetch", idx |-> i + 1, status |-> "none"]
    ELSE [xpc |-> "report", idx |-> i, status |-> "success"]

\* mutant: after the download the release goes to verification at once
ExecControlSkipInstall(step, ok, i, n) ==
    IF ~ok THEN [xpc |-> "report", idx |-> i, status |-> "failed"]
    ELSE IF step = "fetch" THEN [xpc |-> "download", idx |-> i, status |-> "none"]
    ELSE IF step = "download" THEN [xpc |-> "verify", idx |-> i, status |-> "none"]
    ELSE IF step = "install" THEN [xpc |-> "verify", idx |-> i, status |-> "none"]
    ELSE IF i < n THEN [xpc |-> "fetch", idx |-> i + 1, status |-> "none"]
    ELSE [xpc |-> "report", idx |-> i, status |-> "success"]

\* control flow of the for loop: a failed step throws into the catch, which
\* reports failed; after verify the next release, or the success report
ExecControl(step, ok, i, n) ==
    IF ~ok THEN [xpc |-> "report", idx |-> i, status |-> "failed"]
    ELSE IF step = "fetch" THEN [xpc |-> "download", idx |-> i, status |-> "none"]
    ELSE IF step = "download" THEN [xpc |-> "install", idx |-> i, status |-> "none"]
    ELSE IF step = "install" THEN [xpc |-> "verify", idx |-> i, status |-> "none"]
    ELSE IF i < n THEN [xpc |-> "fetch", idx |-> i + 1, status |-> "none"]
    ELSE [xpc |-> "report", idx |-> i, status |-> "success"]

ReportOf(c, step, rid, inner) ==
    IF c.status = "failed"
    THEN [status |-> "failed", error_message |-> FailureMessage(step, rid, inner)]
    ELSE IF c.status = "success" THEN [status |-> "success", error_message |-> NoMsg]
    ELSE NoReport

\* mutant: the execution announces in_progress to the Ledger when it starts
StartAnnouncementInProgress == "in_progress"

\* the status ExecuteDeployment posts to the Ledger when it starts: it posts
\* none, it only writes to the console
StartAnnouncement == "none"

\* mutant: no release_ids test; the loop runs zero times and success is reported
StartControlNoTest(d) ==
    IF Len(d.release_ids) = 0 THEN [xpc |-> "report", status |-> "success"]
    ELSE [xpc |-> "fetch", status |-> "none"]

\* release_ids == null || release_ids.Count == 0 throws into the catch
StartControl(d) ==
    IF Len(d.release_ids) = 0 THEN [xpc |-> "report", status |-> "failed"]
    ELSE [xpc |-> "fetch", status |-> "none"]

\* entry of ExecuteDeployment: the release_ids test
ExecStart ==
    /\ xpc = "start"
    /\ xpc' = StartControl(dep).xpc
    /\ report' = CASE StartControl(dep).status = "failed" ->
                         [status |-> "failed", error_message |-> FailureMessage("start", "", NoMsg)]
                    [] StartControl(dep).status = "success" ->
                         [status |-> "success", error_message |-> NoMsg]
                    [] OTHER -> report
    /\ idx' = IF StartControl(dep).xpc = "fetch" THEN 1 ELSE idx
    /\ dlError' = NoMsg
    /\ ledger' = IF StartAnnouncement = "none" THEN ledger
                 ELSE LedgerComplete(ledger, dep.id, StartAnnouncement, NoMsg)
    /\ UNCHANGED <<agentVars, agentId, running, mpc, pc, active, dep, release, downloadPath,
                   staging, registry, tickLog, lastReq, unregCalls>>

\* 1. FetchReleaseDetails(releaseId): null on a non-success response or an exception
ExecFetch(o) ==
    /\ xpc = "fetch"
    /\ LET rid == dep.release_ids[idx]
           rel == IF o = "ok" THEN CatalogGet(rid) ELSE NoRelease
           c == ExecControl("fetch", rel # NoRelease, idx, Len(dep.release_ids))
       IN  /\ release' = rel
           /\ xpc' = c.xpc
           /\ idx' = c.idx
           /\ report' = ReportOf(c, "fetch", rid, NoMsg)
           /\ tickLog' = Append(tickLog, Entry("fetch", idx, rel # NoRelease))
    /\ UNCHANGED <<agentVars, agentId, running, mpc, pc, active, dep, downloadPath, dlError,
                   staging, registry, ledger, lastReq, unregCalls>>

\* 2. DownloadReleaseArtifacts(release, tagToUse)
ExecDownload(e) ==
    /\ xpc = "download"
    /\ \E r \in {DownloadReleaseArtifacts(release, TagToUse(dep, idx, release), agentPlatform,
                                          staging, e)} :
       LET rid == dep.release_ids[idx]
           c == ExecControl("download", r.path # NoPath, idx, Len(dep.release_ids))
       IN  /\ downloadPath' = r.path
           /\ dlError' = r.error
           /\ staging' = r.files
           /\ xpc' = c.xpc
           /\ idx' = c.idx
           /\ report' = ReportOf(c, "download", rid, r.error)
           /\ tickLog' = tickLog \o [k \in 1..Len(r.reqs) |-> Entry(r.reqs[k], idx, TRUE)]
                                 \o Written(staging, r.files, r.path, idx)
                                 \o <<Entry("download", idx, r.path # NoPath)>>
           /\ answers' = Answers(e, r.reqs, ParsedUrl[release.download_url],
                                  TagToUse(dep, idx, release))
           /\ selectedAsset' = IF Len(r.reqs) = 2 THEN SelectedAssetOf(e.assets, agentPlatform)
                                ELSE NoAsset
    /\ UNCHANGED <<variant, agentPlatform, githubAssets, chmod, agentId, running, mpc, pc,
                   active, dep, release, registry, ledger, lastReq, unregCalls>>

\* 3. InstallSoftware(downloadPath, release)
ExecInstall(ch) ==
    /\ xpc = "install"
    /\ LET rid == dep.release_ids[idx]
           ok == InstallSoftware(staging, downloadPath, agentPlatform, ch)
           c == ExecControl("install", ok, idx, Len(dep.release_ids))
       IN  /\ xpc' = c.xpc
           /\ idx' = c.idx
           /\ report' = ReportOf(c, "install", rid, NoMsg)
           /\ tickLog' = Append(tickLog, Entry("install", idx, ok))
    /\ chmod' = IF RunsChmod(staging, downloadPath, agentPlatform) THEN ch ELSE "none"
    /\ UNCHANGED <<variant, agentPlatform, githubAssets, selectedAsset, answers, agentId, running,
                   mpc, pc, active, dep, release, downloadPath, dlError, staging, registry,
                   ledger, lastReq, unregCalls>>

\* 4. VerifyInstallation(downloadPath), then the next release or the end of the loop
ExecVerify ==
    /\ xpc = "verify"
    /\ LET rid == dep.release_ids[idx]
           ok == VerifyInstallation(staging, downloadPath, agentPlatform)
           c == ExecControl("verify", ok, idx, Len(dep.release_ids))
       IN  /\ xpc' = c.xpc
           /\ idx' = c.idx
           /\ report' = ReportOf(c, "verify", rid, NoMsg)
           /\ tickLog' = Append(tickLog, Entry("verify", idx, ok))
    /\ chmod' = "none"
    /\ UNCHANGED <<variant, agentPlatform, githubAssets, selectedAsset, answers, agentId,
                   running, mpc, pc, active, dep, release, downloadPath, dlError, staging,
                   registry, ledger, lastReq, unregCalls>>

\* mutant: the report is sent again until it gets a success response
AfterReportRetry(o) == IF o = "ok" THEN "idle" ELSE "report"

\* ReportDeploymentComplete writes one console line whatever the response or
\* the exception, and returns
AfterReport(o) == "idle"

\* ReportDeploymentComplete(deployment.id, status, message); ExecuteDeployment returns
ExecReport(o) ==
    /\ xpc = "report"
    /\ ledger' = IF Delivered(o)
                 THEN LedgerComplete(ledger, dep.id, report.status, report.error_message)
                 ELSE ledger
    /\ tickLog' = Append(tickLog, Entry("report", 0, report.status = "success"))
    /\ xpc' = AfterReport(o)
    /\ active' = active - 1
    /\ dep' = NoDep
    /\ idx' = 0
    /\ release' = NoRelease
    /\ downloadPath' = NoPath
    /\ report' = NoReport
    /\ dlError' = NoMsg
    /\ selectedAsset' = NoAsset
    /\ answers' = NoAnswers
    /\ chmod' = "none"
    /\ UNCHANGED <<variant, agentPlatform, githubAssets, agentId, running, mpc, pc, staging,
                   registry, lastReq, unregCalls>>

(***************************************************************************)
(* Environment                                                             *)
(***************************************************************************)
\* an operator submits a batch for a registered agent
OperatorCreate ==
    /\ Len(ledger) < MaxDeployments
    /\ \E a \in registry, b \in Batches :
          /\ LedgerCanCreate(ledger, registry, a.id, b)
          /\ ledger' = LedgerCreate(ledger, a.id, b)
    /\ UNCHANGED <<agentVars, agentId, running, mpc, pc, xpc, active, execVars, registry,
                   tickLog, lastReq, unregCalls>>

\* the staged file is removed from outside between download and verification
FsRemove ==
    /\ xpc \in {"install", "verify"}
    /\ FileExists(staging, downloadPath)
    /\ staging' = {f \in staging : f.path # downloadPath}
    /\ UNCHANGED <<agentVars, agentId, running, mpc, pc, xpc, active, dep, idx, release,
                   downloadPath, report, dlError, registry, ledger, tickLog, lastReq,
                   unregCalls>>

(***************************************************************************)
(* Specifications                                                          *)
(***************************************************************************)
InitRest ==
    /\ agentPlatform \in Platforms
    /\ agentId = NoId
    /\ running = TRUE
    /\ mpc = "register"
    /\ pc = "notstarted"
    /\ xpc = "idle"
    /\ active = 0
    /\ dep = NoDep
    /\ idx = 0
    /\ release = NoRelease
    /\ downloadPath = NoPath
    /\ report = NoReport
    /\ dlError = NoMsg
    /\ staging = {}
    /\ registry = {}
    /\ ledger = <<>>
    /\ tickLog = <<>>
    /\ lastReq = NoReq
    /\ unregCalls = 0
    /\ githubAssets = <<>>
    /\ selectedAsset = NoAsset
    /\ answers = NoAnswers
    /\ chmod = "none"

Init == variant = 2 /\ InitRest

InitVariants == variant \in {1, 2} /\ InitRest

Next ==
    \/ Signal
    \/ \E o \in Outcomes : RegisterToMaster(o)
    \/ LoopTest
    \/ DelayElapsed
    \/ \E o \in Outcomes : SendHeartbeat(o)
    \/ \E o \in Outcomes : CheckForDeployment(o)
    \/ AwaitExecute
    \/ EndTick
    \/ MainAwait
    \/ \E o \in Outcomes : UnregisterFromMaster(o)
    \/ ExecStart
    \/ \E o \in Outcomes : ExecFetch(o)
    \/ \E e \in DownloadEnvs : ExecDownload(e)
    \/ \E ch \in ChmodOutcomes : ExecInstall(ch)
    \/ ExecVerify
    \/ \E o \in Outcomes : ExecReport(o)
    \/ OperatorCreate
    \/ FsRemove

Spec == Init /\ [][Next]_vars

SpecVariants == InitVariants /\ [][Next]_vars

\* the steps of the agent process; every HTTP call returns or throws within
\* the transport's timeout, and Task.Delay returns
AgentNext ==
    \/ \E o \in Outcomes : RegisterToMaster(o)
    \/ LoopTest
    \/ DelayElapsed
    \/ \E o \in Outcomes : SendHeartbeat(o)
    \/ \E o \in Outcomes : CheckForDeployment(o)
    \/ AwaitExecute
    \/ EndTick
    \/ MainAwait
    \/ \E o \in Outcomes : UnregisterFromMaster(o)
    \/ ExecStart
    \/ \E o \in Outcomes : ExecFetch(o)
    \/ \E e \in DownloadEnvs : ExecDownload(e)
    \/ \E ch \in ChmodOutcomes : ExecInstall(ch)
    \/ ExecVerify
    \/ \E o \in Outcomes : ExecReport(o)

SpecFair == Init /\ [][Next]_vars /\ WF_vars(AgentNext)

(***************************************************************************)
(* The loop of a registered agent that is not signalled, with a queue of   *)
(* deployments at the Ledger                                               *)
(***************************************************************************)
\* how many deployments operators submit for the agent
MaxQueue == 2

QueueBatches ==
    {[release_ids |-> <<"r1">>, release_tags |-> <<TagV1>>],
     [release_ids |-> <<"r2">>, release_tags |-> <<TagV2>>]}

\* the artifact host refuses the release, or serves app.exe and app.dmg
QueueDownloadEnvs ==
    {DlEnv("ok", "status", <<>>, "ok", 0),
     DlEnv("ok", "ok", <<Asset(NameExe, 5), Asset(NameDmg, 7)>>, "ok", 1)}

\* an operator submits a batch for the agent
CreateQueued ==
    /\ Len(ledger) < MaxQueue
    /\ \E a \in registry, b \in QueueBatches :
          /\ LedgerCanCreate(ledger, registry, a.id, b)
          /\ ledger' = LedgerCreate(ledger, a.id, b)
    /\ UNCHANGED <<agentVars, agentId, running, mpc, pc, xpc, active, execVars, registry,
                   tickLog, lastReq, unregCalls>>

\* RegisterToMaster has stored the id and the heartbeat task has started
InitQueue ==
    /\ variant = 2
    /\ agentPlatform \in Platforms
    /\ registry = RegistryRegister({}, RegisterRequest.name, RegisterRequest.platform)
    /\ agentId = RegistryIdOf(registry, RegisterRequest.name, RegisterRequest.platform)
    /\ running = TRUE
    /\ mpc = "wait"
    /\ pc = "loop"
    /\ xpc = "idle"
    /\ active = 0
    /\ dep = NoDep
    /\ idx = 0
    /\ release = NoRelease
    /\ downloadPath = NoPath
    /\ report = NoReport
    /\ dlError = NoMsg
    /\ staging = {}
    /\ ledger = <<>>
    /\ tickLog = <<>>
    /\ lastReq = NoReq
    /\ unregCalls = 0
    /\ githubAssets = <<>>
    /\ selectedAsset = NoAsset
    /\ answers = NoAnswers
    /\ chmod = "none"

\* the steps of the heartbeat task and of ExecuteDeployment
AgentQueueNext ==
    \/ LoopTest
    \/ DelayElapsed
    \/ \E o \in Outcomes : SendHeartbeat(o)
    \/ \E o \in Outcomes : CheckForDeployment(o)
    \/ AwaitExecute
    \/ EndTick
    \/ ExecStart
    \/ \E o \in Outcomes : ExecFetch(o)
    \/ \E e \in QueueDownloadEnvs : ExecDownload(e)
    \/ \E ch \in ChmodOutcomes : ExecInstall(ch)
    \/ ExecVerify
    \/ \E o \in Outcomes : ExecReport(o)

NextQueue ==
    \/ LoopTest
    \/ DelayElapsed
    \/ \E o \in Outcomes : SendHeartbeat(o)
    \/ \E o \in Outcomes : CheckForDeployment(o)
    \/ AwaitExecute
    \/ EndTick
    \/ ExecStart
    \/ \E o \in Outcomes : ExecFetch(o)
    \/ \E e \in QueueDownloadEnvs : ExecDownload(e)
    \/ \E ch \in ChmodOutcomes : ExecInstall(ch)
    \/ ExecVerify
    \/ \E o \in Outcomes : ExecReport(o)
    \/ CreateQueued

SpecQueue == InitQueue /\ [][NextQueue]_vars

\* every call returns or throws and Task.Delay returns; the poll and the
\* completion report, called again and again, get a success response in the end
SpecQueueFair ==
    /\ InitQueue
    /\ [][NextQueue]_vars
    /\ WF_vars(AgentQueueNext)
    /\ SF_vars(CheckForDeployment("ok"))
    /\ SF_vars(ExecReport("ok"))

(***************************************************************************)
(* ExecuteDeployment on its own: any delivered deployment, any platform    *)
(* string                                                                  *)
(***************************************************************************)
\* the deployments a poll may deliver: release_ids and release_tags as the
\* DeploymentResponse carries them, a null list being the empty one
DeliveredDeployments ==
    {[id |-> 1, release_ids |-> b[1], release_tags |-> b[2]] :
        b \in {<< <<>>, <<>> >>,
                << <<>>, <<TagV1>> >>,
                << <<"r1">>, <<>> >>,
                << <<"r1">>, <<TagV2>> >>,
                << <<"r1">>, << <<>> >> >>,
                << <<"r5">>, <<>> >>,
                << <<"r5">>, <<TagV1>> >>,
                << <<"r1", "r2">>, <<TagV2>> >>,
                << <<"r1", "r4">>, <<TagV1, TagV1>> >>,
                << <<"r6">>, <<TagV1>> >>,
                << <<"r7">>, <<TagV1>> >>,
                << <<"r8">>, <<TagV1>> >>,
                << <<"r9">>, <<TagV1>> >>,
                << <<"r3">>, <<TagV1>> >>}}

\* asset lists the artifact host may answer with
ExecAssetLists ==
    AssetLists
    \cup {<<Asset(NameExeUpper, 1)>>,
          <<Asset(NameZip, 1), Asset(NameExe, 1)>>,
          <<Asset(NameSourceZip, 9), Asset(NameSrcUpper, 1)>>,
          <<Asset(NameBin, 1), Asset(NameBin, 9)>>}
    \cup {<<AssetOfType(NameTool, 1, ct)>> :
              ct \in {CtOctet, CtAppZip, CtAppDmg, CtAppExe, CtZipExe, CtDmgExe}}

ExecDownloadEnvs == DownloadEnvsOf(ExecAssetLists)

\* CheckForDeployment has received the deployment and calls ExecuteDeployment
InitExec ==
    /\ variant = 2
    /\ agentPlatform \in SelectPlatforms
    /\ registry = RegistryRegister({}, agentName, agentPlatform)
    /\ agentId = RegistryIdOf(registry, agentName, agentPlatform)
    /\ running = TRUE
    /\ mpc = "wait"
    /\ pc = "await"
    /\ xpc = "start"
    /\ active = 1
    /\ dep \in DeliveredDeployments
    /\ idx = 0
    /\ release = NoRelease
    /\ downloadPath = NoPath
    /\ report = NoReport
    /\ dlError = NoMsg
    /\ staging = {}
    /\ ledger = <<[id |-> dep.id, agent_id |-> agentId, release_ids |-> dep.release_ids,
                   release_tags |-> dep.release_tags, status |-> "pending",
                   created_at |-> 1, error_message |-> NoMsg]>>
    /\ tickLog = <<Entry("heartbeat", 0, TRUE), Entry("poll", 0, TRUE)>>
    /\ lastReq = [op |-> "poll", id |-> agentId]
    /\ unregCalls = 0
    /\ githubAssets = <<>>
    /\ selectedAsset = NoAsset
    /\ answers = NoAnswers
    /\ chmod = "none"

NextExec ==
    \/ ExecStart
    \/ \E o \in Outcomes : ExecFetch(o)
    \/ \E e \in ExecDownloadEnvs : ExecDownload(e)
    \/ \E ch \in ChmodOutcomes : ExecInstall(ch)
    \/ ExecVerify
    \/ \E o \in Outcomes : ExecReport(o)
    \/ FsRemove

SpecExec == InitExec /\ [][NextExec]_vars

(***************************************************************************)
(* The Ledger on its own: any sequence of Create, NextPending and Complete *)
(***************************************************************************)
\* the agents the Registry holds while the Ledger is exercised
LedgerAgents ==
    {[id |-> [src |-> "registry", n |-> 1], name |-> agentName, platform |-> "windows",
      fresh |-> FALSE],
     [id |-> [src |-> "registry", n |-> 2], name |-> "other", platform |-> "macos",
      fresh |-> FALSE]}

\* mutant: an agent may also report pending
ReportsWithPending ==
    {[status |-> "success", error_message |-> NoMsg],
     [status |-> "failed", error_message |-> <<"Failed to fetch release details for ", "r1">>],
     [status |-> "pending", error_message |-> NoMsg]}

\* the (status, error_message) pairs an agent reports
Reports ==
    {[status |-> "success", error_message |-> NoMsg],
     [status |-> "failed", error_message |-> <<"Failed to fetch release details for ", "r1">>],
     [status |-> "failed", error_message |-> <<"Failed to install software for ", "r1">>]}

\* Complete(deployment_id, ...) -> () or NotFound
LedgerCompleteResult(led, id) == IF id \in 1..Len(led) THEN "ok" ELSE "NotFound"

Create ==
    /\ Len(ledger) < MaxLedger
    /\ \E a \in registry :
          LET b == CHOOSE b \in Batches : b.release_ids = <<"r1", "r2">>
          IN  /\ LedgerCanCreate(ledger, registry, a.id, b)
              /\ ledger' = LedgerCreate(ledger, a.id, b)
              /\ lastReq' = [op |-> "create", id |-> a.id]
    /\ UNCHANGED <<agentVars, agentId, running, mpc, pc, xpc, active, execVars, registry,
                   tickLog, unregCalls>>

NextPending ==
    /\ \E a \in registry :
          /\ dep' = LedgerNextPending(ledger, a.id)
          /\ lastReq' = [op |-> "poll", id |-> a.id]
    /\ UNCHANGED <<agentVars, agentId, running, mpc, pc, xpc, active, idx, release,
                   downloadPath, report, dlError, staging, registry, ledger, tickLog,
                   unregCalls>>

Complete ==
    /\ \E id \in 1..(Len(ledger) + 1), r \in Reports :
          /\ ledger' = LedgerComplete(ledger, id, r.status, r.error_message)
          /\ report' = r
          /\ lastReq' = [op |-> "complete", id |-> id,
                          result |-> LedgerCompleteResult(ledger, id),
                          before |-> IF id \in 1..Len(ledger) THEN ledger[id].status
                                     ELSE "none"]
    /\ UNCHANGED <<agentVars, agentId, running, mpc, pc, xpc, active, dep, idx, release,
                   downloadPath, dlError, staging, registry, tickLog, unregCalls>>

InitLedger ==
    /\ variant = 2
    /\ agentPlatform = "windows"
    /\ agentId = NoId
    /\ running = TRUE
    /\ mpc = "register"
    /\ pc = "notstarted"
    /\ xpc = "idle"
    /\ active = 0
    /\ dep = NoDep
    /\ idx = 0
    /\ release = NoRelease
    /\ downloadPath = NoPath
    /\ report = NoReport
    /\ dlError = NoMsg
    /\ staging = {}
    /\ registry = LedgerAgents
    /\ ledger = <<>>
    /\ tickLog = <<>>
    /\ lastReq = NoReq
    /\ unregCalls = 0
    /\ githubAssets = <<>>
    /\ selectedAsset = NoAsset
    /\ answers = NoAnswers
    /\ chmod = "none"

NextLedger == Create \/ NextPending \/ Complete

SpecLedger == InitLedger /\ [][NextLedger]_vars

(***************************************************************************)
(* Asset selection on its own: any platform string, any asset list         *)
(***************************************************************************)
\* the assets a release may list
AssetPool ==
    {Asset(NameSourceZip, 9), Asset(NameSrcUpper, 1), Asset(NameExe, 1), Asset(NameExe, 9),
     Asset(NameDmg, 9), Asset(NameZip, 1), Asset(NameBin, 1), Asset(NameBin, 9)}

\* every list of at most n assets
RECURSIVE AssetListsUpTo(_)
AssetListsUpTo(n) ==
    IF n = 0 THEN {<<>>}
    ELSE AssetListsUpTo(n - 1)
         \cup {Append(l, a) : l \in {m \in AssetListsUpTo(n - 1) : Len(m) = n - 1}, a \in AssetPool}

SelectStep ==
    /\ mpc = "select"
    /\ selectedAsset' = SelectedAssetOf(githubAssets, agentPlatform)
    /\ mpc' = "selected"
    /\ UNCHANGED <<variant, agentPlatform, githubAssets, answers, chmod, agentId, running, pc,
                   xpc, active, execVars, registry, ledger, tickLog, lastReq, unregCalls>>

InitSelect ==
    /\ variant = 2
    /\ agentPlatform \in SelectPlatforms
    /\ githubAssets \in AssetListsUpTo(MaxAssets)
    /\ selectedAsset = NoAsset
    /\ agentId = NoId
    /\ running = TRUE
    /\ mpc = "select"
    /\ pc = "notstarted"
    /\ xpc = "idle"
    /\ active = 0
    /\ dep = NoDep
    /\ idx = 0
    /\ release = NoRelease
    /\ downloadPath = NoPath
    /\ report = NoReport
    /\ dlError = NoMsg
    /\ staging = {}
    /\ registry = {}
    /\ ledger = <<>>
    /\ tickLog = <<>>
    /\ lastReq = NoReq
    /\ unregCalls = 0
    /\ answers = NoAnswers
    /\ chmod = "none"

SpecSelect == InitSelect /\ [][SelectStep]_vars

(***************************************************************************)
(* Claims                                                                  *)
(***************************************************************************)
\* a tick of the heartbeat task is in flight
TickInFlight == pc \in {"heartbeat", "check", "await", "endtick"} \/ xpc # "idle"

\* the steps of the pipeline of one release, and the requests it sends
StepOps == {"fetch", "api", "asset", "download", "install", "verify"}

\* the tick's heartbeat got a success response
HeartbeatSucceeded == tickLog # <<>> /\ tickLog[1].op = "heartbeat" /\ tickLog[1].ok

\* the Registry updated last_seen of this agent's record in the tick in flight
LivenessRefreshed == \E a \in registry : a.id = agentId /\ a.fresh

\* C1: at most one ExecuteDeployment call is in flight at any time, and the
\* task is at the loop test, the delay, the heartbeat or the poll only when no
\* execution is in flight; a tick starts with the previous tick's pipeline over
C1_OneExecutionAtATime ==
    /\ active <= 1
    /\ (xpc # "idle") <=> (active = 1)
    /\ pc # "await" => xpc = "idle"
    /\ pc \in {"loop", "delay", "heartbeat", "done"} => tickLog = <<>>

\* C1 witness: a tick starts after an earlier tick executed a deployment and
\* reported it
C1_Witness == pc = "heartbeat" /\ Len(ledger) > 0 /\ ledger[1].status # "pending"

\* C2: the poll of a tick is issued only after the heartbeat of that tick has
\* returned: the task is at the poll, or has polled, only with the heartbeat
\* first in the tick's log
C2_HeartbeatBeforePoll ==
    /\ pc = "check" => tickLog # <<>> /\ tickLog[1].op = "heartbeat"
    /\ \A k \in 1..Len(tickLog) :
          tickLog[k].op = "poll" => k > 1 /\ tickLog[1].op = "heartbeat"

\* C2 witness: a tick polled after its heartbeat had failed
C2_Witness ==
    /\ Len(tickLog) >= 2
    /\ tickLog[1] = Entry("heartbeat", 0, FALSE)
    /\ tickLog[2].op = "poll"

\* C3 as claimed: whenever a poll hands out a deployment, the Registry has
\* updated the agent's last_seen in that tick
C3_Original == xpc = "start" => LivenessRefreshed

\* C3 amended: whenever a poll hands out a deployment in a tick whose
\* heartbeat got a success response, the Registry has updated the agent's
\* last_seen in that tick
C3_RefreshedIfHeartbeatOk == (xpc = "start" /\ HeartbeatSucceeded) => LivenessRefreshed

\* C3 witness: a deployment handed out after a successful heartbeat
C3_Witness == xpc = "start" /\ HeartbeatSucceeded /\ LivenessRefreshed

\* C4: Unregister is issued only with the task finished and no tick or
\* execution in flight, and once the signal has arrived no tick starts
C4_ShutdownOrder ==
    /\ [](mpc \in {"unregister", "exited"} => pc = "done" /\ ~TickInFlight /\ active = 0)
    /\ [][(~running /\ ~TickInFlight) => ~TickInFlight']_vars
    /\ [][unregCalls' # unregCalls => (~TickInFlight /\ active = 0 /\ ~running)]_vars

\* C4 witness: the signal has arrived, the execution is still in flight and
\* about to report, and Unregister has not been issued
C4_Witness == ~running /\ xpc = "report" /\ mpc = "wait" /\ unregCalls = 0

\* C5 as claimed: the agent exits having called Unregister once, in every run
C5_Original == mpc = "exited" => unregCalls = 1

\* C5 amended: after the signal the agent eventually exits; before exiting it
\* has called Unregister once if the start-up registration stored an id,
\* and not at all if it stored none
C5_UnregisterIfIdStored ==
    /\ [](mpc = "exited" => unregCalls = (IF agentId # NoId THEN 1 ELSE 0))
    /\ [](unregCalls <= 1)
    /\ (~running ~> mpc = "exited")

\* C5 witness: the agent exited without an Unregister call after a failed
\* start-up registration, its record still in the Registry
C5_Witness == mpc = "exited" /\ agentId = NoId /\ unregCalls = 0 /\ registry # {}

\* C6 as claimed: once a heartbeat has succeeded the agent holds an id
C6_Claim == (pc = "check" /\ HeartbeatSucceeded) => agentId # NoId

\* C7 as claimed: the id of every poll and Unregister request is an id the
\* Registry issued
C7_Claim == lastReq.op \in {"poll", "unregister"} => lastReq.id.src = "registry"

\* C8: once a step of the release at index i has failed, no step of any
\* release is executed after it and the report is failed; steps are logged in
\* list order
C8_FailFast ==
    /\ \A k \in 1..Len(tickLog) :
          (tickLog[k].op \in StepOps /\ ~tickLog[k].ok) =>
             /\ \A j \in (k + 1)..Len(tickLog) : tickLog[j] = Entry("report", 0, FALSE)
             /\ xpc \in {"report", "idle"}
             /\ xpc = "report" => report.status = "failed"
    /\ \A j, k \in 1..Len(tickLog) :
          (j < k /\ tickLog[j].op \in StepOps /\ tickLog[k].op \in StepOps) =>
             tickLog[j].i <= tickLog[k].i

\* C8 witness: the first of two releases failed verification and the
\* execution is about to report failed
C8_Witness ==
    /\ xpc = "report"
    /\ report.status = "failed"
    /\ Len(dep.release_ids) = 2
    /\ idx = 1
    /\ tickLog[Len(tickLog)] = Entry("verify", 1, FALSE)

\* C9: the report is success exactly when every release of the list passed
\* fetch, download, install and verify, else failed; no success after a
\* failed step
C9_SuccessIffAllPassed ==
    /\ xpc = "report" =>
          /\ report.status \in {"success", "failed"}
          /\ report.status = "success" <=>
                (Len(dep.release_ids) > 0
                    /\ \A i \in 1..Len(dep.release_ids) :
                          \A st \in {"fetch", "download", "install", "verify"} :
                             \E k \in 1..Len(tickLog) : tickLog[k] = Entry(st, i, TRUE))
    /\ \A k \in 1..Len(tickLog) : tickLog[k] = Entry("report", 0, TRUE) =>
          ~\E j \in 1..Len(tickLog) : tickLog[j].op \in StepOps /\ ~tickLog[j].ok

\* C9 witness: a success report of a deployment of two releases
C9_Witness == xpc = "report" /\ report.status = "success" /\ Len(dep.release_ids) = 2

\* C10 as claimed: after a failure inside DownloadReleaseArtifacts the
\* reported error_message is that error's own message
C10_Original == (xpc = "report" /\ dlError # NoMsg) => report.error_message = dlError

\* C10 amended: after a failure inside DownloadReleaseArtifacts the report is
\* failed with the message "Failed to download artifacts for {release id}"
C10_DownloadFailureMessage ==
    (xpc = "report" /\ dlError # NoMsg) =>
        /\ report.status = "failed"
        /\ report.error_message = <<"Failed to download artifacts for ", dep.release_ids[idx]>>

\* C10 witness: a report after a malformed download_url
C10_Witness ==
    /\ xpc = "report"
    /\ dlError = <<"Invalid GitHub URL format: ", UrlBad>>
    /\ report.status = "failed"

\* the files releases at an index below i wrote during the execution in flight
WrittenBelow(i) == {k \in 1..Len(tickLog) : tickLog[k].op = "write" /\ tickLog[k].i < i}

\* C11 as claimed: when the execution fails at index i, the file every release
\* below i staged is in the staging directory with the size it was written with
C11_Original ==
    (xpc = "report" /\ report.status = "failed") =>
        \A k \in WrittenBelow(idx) : tickLog[k].file \in staging

\* C11 amended: when the execution fails at index i, the file of every release
\* below i is still staged unchanged unless a later release of the batch wrote
\* to the same {repo}-{tag}{ext} path; the report names the failed release, and
\* a completion report the Ledger processes sets the status and the message
C11_NoRollback ==
    /\ []((xpc = "report" /\ report.status = "failed") =>
            /\ \A k \in WrittenBelow(idx) :
                  (\A j \in (k + 1)..Len(tickLog) :
                      tickLog[j].op = "write" => tickLog[j].file.path # tickLog[k].file.path)
                      => tickLog[k].file \in staging
            /\ Len(report.error_message) = 2
            /\ report.error_message[2] = dep.release_ids[idx])
    /\ [][(xpc = "report" /\ xpc' = "idle" /\ ledger' # ledger) =>
              /\ ledger'[dep.id].status = report.status
              /\ ledger'[dep.id].error_message = report.error_message]_vars

\* C11 witness: the second release failed with the first release's file staged
\* under another name
C11_Witness ==
    /\ xpc = "report"
    /\ report.status = "failed"
    /\ idx = 2
    /\ WrittenBelow(2) # {}
    /\ \A k \in WrittenBelow(2) :
          /\ \A j \in (k + 1)..Len(tickLog) :
                tickLog[j].op = "write" => tickLog[j].file.path # tickLog[k].file.path
          /\ tickLog[k].file \in staging
    /\ \E f \in staging : f.path # tickLog[CHOOSE k \in WrittenBelow(2) : TRUE].file.path

\* C12: a poll never changes the Ledger; a completion report that does not
\* reach the Ledger leaves the deployment pending; and every poll that gets a
\* success response while the agent has a pending deployment hands that
\* deployment to ExecuteDeployment, also when it was executed before
C12_AtLeastOnce ==
    /\ [][(pc = "check" /\ pc' # "check") => ledger' = ledger]_vars
    /\ [][(xpc = "report" /\ xpc' = "idle" /\ ledger[dep.id].status = "pending") =>
              (ledger' = ledger \/ ledger'[dep.id].status = report.status)]_vars
    /\ [][(pc = "check" /\ tickLog' = Append(tickLog, Entry("poll", 0, TRUE))
              /\ LedgerNextPending(ledger, agentId) # NoDep) =>
              /\ xpc' = "start"
              /\ dep' = LedgerNextPending(ledger, agentId)
              /\ ledger'[dep'.id].status = "pending"]_vars

\* C12 witness: the only deployment of the Ledger is handed out again, still
\* pending, with a file of its earlier execution in the staging directory
C12_Witness ==
    /\ xpc = "start"
    /\ Len(ledger) = 1
    /\ ledger[1].status = "pending"
    /\ dep.id = ledger[1].id
    /\ staging # {}

\* the pending deployments of agent aid, as positions of the Ledger
PendingOf(aid) == {k \in 1..Len(ledger) : ledger[k].agent_id = aid /\ ledger[k].status = "pending"}

\* C13: what NextPending(agent) returned is none exactly when the agent has no
\* pending deployment, and else one deployment of that agent, pending, with
\* the earliest created_at of the agent's pending deployments
C13_NextPendingFifo ==
    lastReq.op = "poll" =>
        /\ dep = NoDep <=> PendingOf(lastReq.id) = {}
        /\ dep # NoDep =>
              /\ dep.id \in PendingOf(lastReq.id)
              /\ \A j \in PendingOf(lastReq.id) :
                    ledger[dep.id].created_at <= ledger[j].created_at

\* C13 witness: the agent has two pending deployments, another agent has an
\* earlier one, and the poll returned the agent's first
C13_Witness ==
    /\ lastReq.op = "poll"
    /\ Cardinality(PendingOf(lastReq.id)) = 2
    /\ ledger[1].agent_id # lastReq.id
    /\ ledger[1].status = "pending"
    /\ dep.id = 2

\* C14 as claimed: a deployment whose status is success or failed never
\* changes status again
C14_Original ==
    [][\A k \in 1..Len(ledger) :
          ledger[k].status \in {"success", "failed"} => ledger'[k].status = ledger[k].status]_vars

\* C14 amended: every status is pending, success or failed; a deployment that
\* left pending never returns to pending; and a status changes only by a
\* Complete for that deployment id, which may overwrite success or failed
C14_NeverBackToPending ==
    /\ [](\A k \in 1..Len(ledger) : ledger[k].status \in {"pending", "success", "failed"})
    /\ [][\A k \in 1..Len(ledger) :
             ledger[k].status # "pending" => ledger'[k].status \in {"success", "failed"}]_vars
    /\ [][\A k \in 1..Len(ledger) :
             ledger'[k].status # ledger[k].status =>
                 lastReq'.op = "complete" /\ lastReq'.id = k]_vars

\* C14 witness: a failed deployment took a second completion report and is
\* now success
C14_Witness ==
    /\ lastReq.op = "complete"
    /\ lastReq.before = "failed"
    /\ ledger[lastReq.id].status = "success"

\* C15: a Complete for a known deployment id returns without error, whatever
\* the status before it, and leaves the status and error_message it was given;
\* a Complete for an unknown id is NotFound
C15_LastWriteWins ==
    lastReq.op = "complete" =>
        /\ lastReq.result = "ok" <=> lastReq.id \in 1..Len(ledger)
        /\ lastReq.id \in 1..Len(ledger) =>
              /\ ledger[lastReq.id].status = report.status
              /\ ledger[lastReq.id].error_message = report.error_message

\* C15 witness: a second report, failed, for a deployment already success
C15_Witness ==
    /\ lastReq.op = "complete"
    /\ lastReq.before = "success"
    /\ lastReq.result = "ok"
    /\ report.status = "failed"
    /\ ledger[lastReq.id].status = "failed"
    /\ ledger[lastReq.id].error_message = report.error_message

\* C16: the Registry never holds more than one record for the agent process;
\* every Register call, at start-up or as heartbeat, keeps the id of the
\* record of that identity; and the id the agent stored is that record's id
C16_RegisterUpsert ==
    /\ [](Cardinality(registry) <= 1)
    /\ [](\A a \in registry :
             /\ a.name = RegisterRequest.name
             /\ a.platform = RegisterRequest.platform
             /\ agentId # NoId => a.id = agentId)
    /\ [][\A a \in registry, b \in registry' :
             (a.name = b.name /\ a.platform = b.platform) => a.id = b.id]_vars

\* C16 witness: after the start-up registration stored the id, the heartbeat
\* of a tick was accepted and the Registry holds the one record with that id
C16_Witness ==
    /\ pc = "check"
    /\ HeartbeatSucceeded
    /\ agentId # NoId
    /\ Cardinality(registry) = 1
    /\ \A a \in registry : a.id = agentId /\ a.fresh

\* C17: the heartbeat task ends only after the termination signal; every tick
\* that starts reaches its end, whatever fails in it; and after the end of a
\* tick another tick starts unless the signal has arrived
C17_LoopNeverEnds ==
    /\ [](pc = "done" => ~running)
    /\ (pc = "heartbeat" ~> pc = "endtick")
    /\ (pc = "endtick" ~> (pc = "heartbeat" \/ ~running))

\* C17 witness: a tick starts, no signal so far, after the execution of an
\* earlier tick failed and was reported failed
C17_Witness ==
    /\ pc = "heartbeat"
    /\ running
    /\ Len(ledger) > 0
    /\ ledger[1].status = "failed"
    /\ staging = {}

Cands == executableAssets(githubAssets)
MatchIdx == {k \in 1..Len(Cands) : MatchesPlatform(Cands[k], agentPlatform)}

\* C19 as claimed: the selected asset ends with the highest-priority
\* extension that any candidate has
C19_Original ==
    (mpc = "selected" /\ MatchIdx # {}) => ExtRank(selectedAsset, agentPlatform) = Min({ExtRank(Cands[k], agentPlatform) : k \in MatchIdx})

\* C19 amended: the selected asset ends with a preferred extension and no
\* candidate listed before it does; it ends with the highest-priority
\* extension any candidate has when the first-listed matching candidate does
C19_FirstMatchNotPriority ==
    (mpc = "selected" /\ MatchIdx # {}) =>
        /\ MatchesPlatform(selectedAsset, agentPlatform)
        /\ \A k \in MatchIdx : \E j \in 1..k : Cands[j] = selectedAsset
        /\ ExtRank(Cands[Min(MatchIdx)], agentPlatform) = Min({ExtRank(Cands[k], agentPlatform) : k \in MatchIdx}) =>
              ExtRank(selectedAsset, agentPlatform) = Min({ExtRank(Cands[k], agentPlatform) : k \in MatchIdx})

\* C19 witness: windows, app.zip listed before app.exe: app.zip is selected
C19_Witness ==
    /\ mpc = "selected"
    /\ agentPlatform = "windows"
    /\ [k \in 1..Len(githubAssets) |-> githubAssets[k].name] = <<NameZip, NameExe>>
    /\ selectedAsset.name = NameZip

\* C20: when a candidate ends with a preferred extension, the selected asset
\* is the first-listed such candidate, whatever the sizes, and is no source
\* archive; windows with app-source.zip, app.exe, app.dmg selects app.exe
C20_FirstListedMatch ==
    /\ (mpc = "selected" /\ MatchIdx # {}) =>
           /\ selectedAsset = Cands[Min(MatchIdx)]
           /\ ~IsSourceArchive(selectedAsset.name)
    /\ (mpc = "selected" /\ agentPlatform = "windows"
            /\ [k \in 1..Len(githubAssets) |-> githubAssets[k].name] = <<NameSourceZip, NameExe, NameDmg>>) =>
           selectedAsset.name = NameExe

\* C20 witness: windows, a larger source archive and a larger .dmg around a
\* small app.exe, and app.exe is selected
C20_Witness ==
    /\ mpc = "selected"
    /\ agentPlatform = "windows"
    /\ githubAssets = <<Asset(NameSourceZip, 9), Asset(NameExe, 1), Asset(NameDmg, 9)>>
    /\ selectedAsset = Asset(NameExe, 1)

\* C21: when no candidate ends with a preferred extension of the platform,
\* the selected asset is a candidate of the largest size, and the first-listed
\* of the candidates of that size
C21_LargestFallback ==
    (mpc = "selected" /\ Len(Cands) > 0 /\ MatchIdx = {}) =>
        \E k \in 1..Len(Cands) :
            /\ selectedAsset = Cands[k]
            /\ \A j \in 1..Len(Cands) : Cands[j].size <= Cands[k].size
            /\ \A j \in 1..(k - 1) : Cands[j].size < Cands[k].size

\* C21 witness: windows, no candidate with a preferred extension, app.dmg and
\* data.bin of the same largest size: app.dmg, listed first, is selected
C21_Witness ==
    /\ mpc = "selected"
    /\ agentPlatform = "windows"
    /\ githubAssets = <<Asset(NameBin, 1), Asset(NameDmg, 9), Asset(NameBin, 9)>>
    /\ selectedAsset = Asset(NameDmg, 9)

\* the name contains source, src or sourcecode, whatever the case of its letters
NamedAsSource(name) ==
    \/ Contains(ToLower(name), KwSource)
    \/ Contains(ToLower(name), KwSrc)
    \/ Contains(ToLower(name), KwSourcecode)

\* C22: the name of the selected asset never contains source, src or
\* sourcecode in any case; when the artifact host answered with no asset, or
\* with assets that all carry such a name, the release fails: no asset is
\* requested, no file is written and the report is failed
C22_SourceFilter ==
    /\ selectedAsset # NoAsset => ~NamedAsSource(selectedAsset.name)
    /\ (answers.api = "ok"
            /\ \A k \in 1..Len(answers.assets) : NamedAsSource(answers.assets[k].name)) =>
           /\ xpc = "report"
           /\ report.status = "failed"
           /\ answers.asset = "none"
           /\ selectedAsset = NoAsset
           /\ downloadPath = NoPath
           /\ tickLog[Len(tickLog)] = Entry("download", idx, FALSE)
           /\ \A k \in 1..Len(tickLog) :
                 tickLog[k].i = idx => tickLog[k].op \notin {"asset", "write"}

\* C22 witness: the artifact host listed app-source.zip and App-SRC.zip only;
\* the execution is about to report failed and the staging directory is empty
C22_Witness ==
    /\ xpc = "report"
    /\ answers.api = "ok"
    /\ answers.assets = <<Asset(NameSourceZip, 9), Asset(NameSrcUpper, 1)>>
    /\ report.status = "failed"
    /\ staging = {}

\* C23: verification fails when the file at the downloaded path is missing
\* or empty, on every platform; for a file that is not empty it passes on
\* windows exactly when the path ends with .exe in any case, and it passes on
\* macos and linux
C23_Verification ==
    [][(xpc = "verify" /\ tickLog' # tickLog) =>
          LET ok == tickLog'[Len(tickLog')].ok
              present == \E f \in staging : f.path = downloadPath
              empty == \E f \in staging : f.path = downloadPath /\ f.size = 0
          IN  /\ tickLog'[Len(tickLog')].op = "verify"
              /\ (~present \/ empty) => ~ok
              /\ (present /\ ~empty /\ agentPlatform = "windows") =>
                     (ok <=> EndsWith(ToLower(downloadPath), ExtExe))
              /\ (present /\ ~empty /\ agentPlatform \in {"macos", "linux"}) => ok]_vars

\* C23 witness: on windows the file staged from APP.EXE, whose path ends
\* with .EXE, passed verification
C23_Witness ==
    /\ xpc = "report"
    /\ agentPlatform = "windows"
    /\ EndsWith(downloadPath, <<".", "E", "X", "E">>)
    /\ tickLog[Len(tickLog)] = Entry("verify", 1, TRUE)
    /\ report.status = "success"

\* C24: once the chmod of InstallSoftware has failed (the process exits with
\* an error or cannot be started) the install step has failed: the execution
\* is about to report failed and goes no further
C24_Claim ==
    chmod \in {"exit1", "nostart"} =>
        /\ xpc = "report"
        /\ report.status = "failed"
        /\ tickLog[Len(tickLog)] = Entry("install", idx, FALSE)

\* C25: the tag the release at position idx is resolved with at the artifact
\* host is the deployment's tag at that position when the list has one there
\* and it is not empty, else the tag_name stored for the release; when both
\* are empty the release fails and the artifact host is not asked.  The
\* staged file carries the same tag, after the repo and a hyphen
C25_TagResolution ==
    [][(xpc = "download" /\ tickLog' # tickLog) =>
          LET supplied == idx <= Len(dep.release_tags) /\ dep.release_tags[idx] # <<>>
              tag == IF supplied THEN dep.release_tags[idx] ELSE release.tag_name
          IN  /\ answers'.api # "none" => answers'.tag = tag
              /\ downloadPath' # NoPath =>
                    HasAt(downloadPath', <<"-">> \o tag, Len(answers'.repo) + 1)
              /\ tag = <<>> =>
                    /\ answers'.api = "none"
                    /\ downloadPath' = NoPath
                    /\ xpc' = "report"
                    /\ report'.status = "failed"]_vars

\* C25 witness: r1 is stored with v1, the deployment supplied v2, and the
\* artifact host was asked for v2
C25_Witness ==
    /\ dep.id = 1
    /\ dep.release_tags = <<TagV2>>
    /\ release.id = "r1"
    /\ release.tag_name = TagV1
    /\ answers.api = "ok"
    /\ answers.tag = TagV2
    /\ downloadPath # NoPath

\* url is host/owner/repo after its scheme, with or without slashes at the end
HostOwnerRepo(url) ==
    LET s == TrimEndSlash(url)
    IN  /\ HasAt(s, <<"h", "t", "t", "p", "s", ":", "/", "/">>, 1)
        /\ Cardinality({k \in 1..Len(s) : s[k] = "/"}) = 4
        /\ \A k \in 9..Len(s) : s[k] = "/" => s[k - 1] # "/"

\* C26 as claimed: the artifact host is asked only for a download_url of the
\* shape host/owner/repo, and for any other shape the release fails with the
\* invalid-reference error and no request
C26_Original ==
    [][(xpc = "download" /\ tickLog' # tickLog /\ TagToUse(dep, idx, release) # <<>>) =>
          /\ answers'.api # "none" => HostOwnerRepo(release.download_url)
          /\ ~HostOwnerRepo(release.download_url) =>
                /\ dlError' = <<"Invalid GitHub URL format: ", TrimEndSlash(release.download_url)>>
                /\ answers'.api = "none"]_vars

\* C26 amended: the download_url is accepted when, slashes at its end
\* removed, it contains https://github.com/owner/repo, whatever precedes and
\* whatever path follows; owner and repo are the two segments after
\* github.com.  Another host or a missing repo fails with "Invalid GitHub URL
\* format", an empty download_url with "Release download URL is empty"; in
\* both cases the release is reported failed and no request is sent to the
\* artifact host
C26_UrlAccepted ==
    [][(xpc = "download" /\ tickLog' # tickLog /\ TagToUse(dep, idx, release) # <<>>) =>
          LET url == release.download_url
              acme == <<"a", "c", "m", "e">>
              owner == CASE url \in {UrlApp, UrlKit, UrlReleases, UrlPrefixed} -> acme
                         [] url = UrlFork -> <<"f", "o", "r", "k">>
                         [] OTHER -> <<>>
              repo == CASE url \in {UrlApp, UrlFork, UrlReleases, UrlPrefixed} -> <<"a", "p", "p">>
                        [] url = UrlKit -> <<"k", "i", "t">>
                        [] OTHER -> <<>>
          IN  /\ url \in {UrlApp, UrlKit, UrlFork, UrlReleases, UrlPrefixed} =>
                    /\ dlError' \notin {<<"Invalid GitHub URL format: ", TrimEndSlash(url)>>,
                                        <<"Release download URL is empty">>}
                    /\ answers'.api # "none" => answers'.owner = owner /\ answers'.repo = repo
                    /\ downloadPath' # NoPath => HasAt(downloadPath', repo \o <<"-">>, 1)
              /\ url \in {UrlBad, UrlOwnerOnly, <<>>} =>
                    /\ dlError' = IF url = <<>> THEN <<"Release download URL is empty">>
                                  ELSE <<"Invalid GitHub URL format: ", TrimEndSlash(url)>>
                    /\ answers'.api = "none"
                    /\ downloadPath' = NoPath
                    /\ xpc' = "report"
                    /\ report'.status = "failed"
              /\ url \in {UrlApp, UrlKit, UrlFork, UrlReleases, UrlPrefixed, UrlBad,
                           UrlOwnerOnly, <<>>}]_vars

\* C26 witness: https://github.com/acme/app/releases/ was accepted, the
\* artifact host was asked for acme/app and the file is staged
C26_Witness ==
    /\ xpc \in {"install", "verify", "report"}
    /\ release.id = "r6"
    /\ release.download_url = UrlReleases
    /\ answers.owner = <<"a", "c", "m", "e">>
    /\ answers.repo = <<"a", "p", "p">>
    /\ downloadPath # NoPath

\* C27: an execution sends one completion report, as its last request and
\* whatever the pipeline did, and returns when that request has been
\* answered or has failed, whatever the answer: no second report follows
C27_OneReportNoRetry ==
    /\ [](Cardinality({k \in 1..Len(tickLog) : tickLog[k].op = "report"}) <= 1)
    /\ []((pc = "await" /\ xpc = "idle") =>
             /\ Cardinality({k \in 1..Len(tickLog) : tickLog[k].op = "report"}) = 1
             /\ tickLog[Len(tickLog)].op = "report")
    /\ [][(xpc # "idle" /\ xpc' = "idle") =>
              /\ xpc = "report"
              /\ tickLog' = Append(tickLog, Entry("report", 0, report.status = "success"))]_vars
    /\ [][(xpc = "report" /\ tickLog' # tickLog) => xpc' = "idle"]_vars

\* C27 witness: the one report of a failed execution did not reach the
\* Ledger, the deployment is still pending there, and the execution has
\* returned
C27_Witness ==
    /\ pc = "await"
    /\ xpc = "idle"
    /\ Cardinality({k \in 1..Len(tickLog) : tickLog[k].op = "report"}) = 1
    /\ tickLog[Len(tickLog)] = Entry("report", 0, FALSE)
    /\ ledger[1].status = "pending"

\* C28: ExecuteDeployment is called only by the poll step, when the poll got
\* a success response that carries a deployment with an id, a pending one of
\* this agent; when the Ledger has nothing pending for the agent (an empty
\* body) the poll step calls nothing; and in a tick whose poll got no success
\* response nothing is executed and no completion report is sent
C28_ExecOnlyOnDelivery ==
    /\ [][(xpc = "idle" /\ xpc' # "idle") =>
              /\ pc = "check"
              /\ xpc' = "start"
              /\ tickLog' = Append(tickLog, Entry("poll", 0, TRUE))
              /\ dep' # NoDep
              /\ dep'.id \in 1..Len(ledger)
              /\ ledger[dep'.id].status = "pending"
              /\ ledger[dep'.id].agent_id = agentId]_vars
    /\ [][(pc = "check" /\ pc' # "check"
              /\ ~\E k \in 1..Len(ledger) :
                     ledger[k].agent_id = agentId /\ ledger[k].status = "pending") =>
              xpc' = "idle" /\ pc' = "endtick"]_vars
    /\ []((\E k \in 1..Len(tickLog) : tickLog[k] = Entry("poll", 0, FALSE)) =>
             /\ xpc = "idle"
             /\ \A k \in 1..Len(tickLog) : tickLog[k].op \in {"heartbeat", "poll"})

\* C28 witness: a deployment is pending for the agent, the poll of the tick
\* got no success response, and the tick ends with nothing executed
C28_Witness ==
    /\ pc = "endtick"
    /\ xpc = "idle"
    /\ \E k \in 1..Len(tickLog) : tickLog[k] = Entry("poll", 0, FALSE)
    /\ Len(tickLog) = 2
    /\ agentId # NoId
    /\ \E k \in 1..Len(ledger) : ledger[k].agent_id = agentId /\ ledger[k].status = "pending"

\* the place of a logged step in the pipeline of one release
StepRank(op) ==
    CASE op = "fetch" -> 1 [] op = "api" -> 2 [] op = "asset" -> 3 [] op = "write" -> 4
      [] op = "download" -> 5 [] op = "install" -> 6 [] op = "verify" -> 7

\* C29: the steps of one release are logged in the order fetch, release-by-tag
\* request, asset request, file written, download returned, install, verify;
\* the download is called only after the fetch passed, install only after
\* the download passed, verify only after install passed; the asset is
\* requested only when the release-by-tag answer was a success that left an
\* asset to select; and the staging directory gets a file only in a download
\* whose release-by-tag and asset answers were both successes
C29_StepOrder ==
    /\ [](\A j, k \in 1..Len(tickLog) :
             (j < k /\ tickLog[j].i = tickLog[k].i /\ tickLog[k].i > 0) =>
                 StepRank(tickLog[j].op) < StepRank(tickLog[k].op))
    /\ [](\A k \in 1..Len(tickLog) :
             /\ tickLog[k].op \in {"api", "asset", "write", "download"} =>
                    (\E j \in 1..(k - 1) : tickLog[j] = Entry("fetch", tickLog[k].i, TRUE))
             /\ tickLog[k].op = "install" => (\E j \in 1..(k - 1) : tickLog[j] = Entry("download", tickLog[k].i, TRUE))
             /\ tickLog[k].op = "verify" => (\E j \in 1..(k - 1) : tickLog[j] = Entry("install", tickLog[k].i, TRUE)))
    /\ [][(xpc = "download" /\ tickLog' # tickLog) =>
              /\ answers'.asset # "none" => answers'.api = "ok" /\ selectedAsset' # NoAsset
              /\ (\E k \in (Len(tickLog) + 1)..Len(tickLog') : tickLog'[k].op = "write") =>
                     answers'.api = "ok" /\ answers'.asset = "ok"
              /\ ~(staging' \subseteq staging) =>
                     answers'.api = "ok" /\ answers'.asset = "ok"]_vars
    /\ [][~(staging' \subseteq staging) => xpc = "download"]_vars

\* C29 witness: one release went through all its steps, in order, and its
\* file is staged
C29_Witness ==
    /\ xpc = "report"
    /\ idx = 1
    /\ Len(tickLog) = 9
    /\ \A k \in 3..9 :
          tickLog[k].op = <<"heartbeat", "poll", "fetch", "api", "asset", "write", "download",
                            "install", "verify">>[k]
    /\ tickLog[9].ok
    /\ staging # {}

\* C30: the execution of a delivered deployment whose release_ids is null or
\* empty goes from its entry to the report of failed, "No releases to
\* deploy", and returns: no release is fetched, no request but the report is
\* sent and no file is written
C30_EmptyReleaseIds ==
    /\ [][(xpc = "start" /\ Len(dep.release_ids) = 0) =>
              /\ xpc' = "report"
              /\ report' = [status |-> "failed", error_message |-> <<"No releases to deploy">>]
              /\ tickLog' = tickLog
              /\ staging' = staging]_vars
    /\ [][(xpc = "report" /\ Len(dep.release_ids) = 0) =>
              /\ xpc' = "idle"
              /\ tickLog' = <<Entry("heartbeat", 0, TRUE), Entry("poll", 0, TRUE),
                               Entry("report", 0, FALSE)>>
              /\ staging' = staging
              /\ release = NoRelease
              /\ ledger' # ledger => ledger'[dep.id].status = "failed"]_vars

\* C30 witness: a deployment without releases was delivered, nothing was
\* fetched or staged, and the Ledger holds it as failed
C30_Witness ==
    /\ xpc = "idle"
    /\ pc = "await"
    /\ ledger[1].release_ids = <<>>
    /\ ledger[1].status = "failed"
    /\ ledger[1].error_message = <<"No releases to deploy">>
    /\ Len(tickLog) = 3
    /\ staging = {}

\* the extension of the names the artifact host lists; tool has none
NameExtension(name) ==
    CASE name \in {NameExe} -> ExtExe
      [] name = NameExeUpper -> <<".", "E", "X", "E">>
      [] name = NameDmg -> ExtDmg
      [] name \in {NameZip, NameSourceZip, NameSrcUpper} -> ExtZip
      [] name = NameBin -> <<".", "b", "i", "n">>
      [] name = NameTool -> <<>>

\* C31: the file a download returns is named repo-tag followed by the
\* extension of the selected asset's name or, when the name has none, by .zip
\* when the content type contains zip, else .dmg when it contains dmg, else
\* .exe when it contains exe, else by nothing
C31_FileName ==
    [][(xpc = "download" /\ downloadPath' # NoPath) =>
          LET a == selectedAsset'
              ext == IF NameExtension(a.name) # <<>> THEN NameExtension(a.name)
                     ELSE IF Contains(a.content_type, <<"z", "i", "p">>) THEN <<".", "z", "i", "p">>
                     ELSE IF Contains(a.content_type, <<"d", "m", "g">>) THEN <<".", "d", "m", "g">>
                     ELSE IF Contains(a.content_type, <<"e", "x", "e">>) THEN <<".", "e", "x", "e">>
                     ELSE <<>>
          IN  /\ a # NoAsset
              /\ downloadPath' = answers'.repo \o <<"-">> \o answers'.tag \o ext
              /\ \E f \in staging' : f.path = downloadPath']_vars

\* C31 witness: the asset tool, of content type application/zip+exe, was
\* staged as app-v2.zip
C31_Witness ==
    /\ xpc \in {"install", "verify", "report"}
    /\ selectedAsset = AssetOfType(NameTool, 1, CtZipExe)
    /\ downloadPath = <<"a", "p", "p", "-", "v", "2", ".", "z", "i", "p">>
    /\ \E f \in staging : f.path = downloadPath

\* C32: the staging directory holds at most one file for each (repo, tag)
\* pair: two staged files never have the same {repo}-{tag}, the path without
\* its extension
C32_Claim ==
    \A f, g \in staging :
        SubSeq(f.path, 1, Len(f.path) - Len(GetExtension(f.path)))
            = SubSeq(g.path, 1, Len(g.path) - Len(GetExtension(g.path))) => f = g

\* C33: agentId is written only by the start-up registration: every step that
\* changes it is RegisterToMaster, and once it is non-empty no step changes it
C33_IdStable ==
    [][/\ agentId' # agentId => mpc = "register" /\ mpc' = "wait"
       /\ agentId # NoId => agentId' = agentId]_vars

\* the id is stored and a heartbeat, a poll, an execution and a delivered
\* completion report have gone by
C33_Witness ==
    /\ agentId # NoId
    /\ pc = "endtick"
    /\ Len(tickLog) > 2
    /\ tickLog[Len(tickLog)].op = "report"
    /\ ledger[1].status # "pending"

\* C34: no poll and no Unregister request carries an empty id; while agentId
\* is empty a tick sends only the heartbeat, and shutdown sends no Unregister
C34_NoRequestWithEmptyId ==
    /\ lastReq.op \in {"poll", "unregister"} => lastReq.id # NoId
    /\ agentId = NoId =>
          /\ \A k \in 1..Len(tickLog) : tickLog[k].op = "heartbeat"
          /\ lastReq = NoReq
          /\ unregCalls = 0

\* a tick of an agent without id has passed CheckForDeployment with the
\* heartbeat as its only request
C34_Witness ==
    /\ agentId = NoId
    /\ pc = "endtick"
    /\ tickLog = <<Entry("heartbeat", 0, TRUE)>>
    /\ lastReq = NoReq

\* C35: a windows agent reports a deployment success only if the staged file
\* of each of its releases ends with .exe, in any case; when the staged file has another
\* extension, as for a selected .msi or .zip asset, verification fails and the
\* deployment is reported failed
C35_WindowsExeOnly ==
    [][agentPlatform = "windows" =>
          /\ (xpc' = "report" /\ report'.status = "success") =>
                 \A i \in 1..Len(dep.release_ids) :
                     \E k \in 1..Len(tickLog') :
                         /\ tickLog'[k].op = "write"
                         /\ tickLog'[k].i = i
                         /\ EndsWith(ToLower(tickLog'[k].file.path), ExtExe)
          /\ (xpc = "verify" /\ tickLog' # tickLog
                 /\ ~EndsWith(ToLower(downloadPath), ExtExe)) =>
                 /\ tickLog'[Len(tickLog')] = Entry("verify", idx, FALSE)
                 /\ xpc' = "report"
                 /\ report'.status = "failed"]_vars

\* C35 witness: on windows app.zip, listed before app.exe, was selected and
\* staged, and its verification failed the deployment
C35_Witness ==
    /\ agentPlatform = "windows"
    /\ xpc = "report"
    /\ selectedAsset.name = NameZip
    /\ answers.assets = <<Asset(NameZip, 1), Asset(NameExe, 1)>>
    /\ EndsWith(downloadPath, ExtZip)
    /\ FileExists(staging, downloadPath)
    /\ tickLog[Len(tickLog)] = Entry("verify", idx, FALSE)
    /\ report.status = "failed"

\* C36: agentPlatform is windows, macos or unknown and never linux; the
\* extension list .deb, .rpm, .tar.gz, .zip is the one in use only when it
\* is unknown, and the chmod of the install step has run only when it is macos
C36_PlatformValues ==
    /\ agentPlatform \in {"windows", "macos", "unknown"}
    /\ agentPlatform # "linux"
    /\ platformExtensions(agentPlatform) = <<ExtDeb, ExtRpm, ExtTarGz, ExtZip>> =>
          agentPlatform = "unknown"
    /\ chmod # "none" => agentPlatform = "macos"
    /\ (xpc = "verify" /\ agentPlatform # "macos") => chmod = "none"

\* C36 witness: the install step of a macos agent has run chmod on the staged
\* file
C36_Witness ==
    /\ agentPlatform = "macos"
    /\ xpc = "verify"
    /\ chmod = "ok"
    /\ tickLog[Len(tickLog)] = Entry("install", idx, TRUE)

\* C37: the deployments of the agent are executed in created_at order: while
\* the agent executes a deployment, no deployment of the agent created
\* earlier is pending at the Ledger; a deployment that stays pending because
\* its report was lost is the one the next poll delivers
C37_CreatedAtOrder ==
    /\ xpc # "idle" =>
          \A k \in 1..Len(ledger) :
              (ledger[k].agent_id = agentId /\ ledger[k].status = "pending") =>
                  ledger[k].created_at >= ledger[dep.id].created_at
    /\ (xpc = "start" /\ Len(tickLog) > 0 /\ tickLog[Len(tickLog)].op = "poll") =>
          dep.id = Min(PendingOf(agentId))

\* C37 witness: the first deployment is executed again, its report having
\* been lost, while the second one waits
C37_Witness ==
    /\ xpc = "fetch"
    /\ dep.id = 1
    /\ Len(ledger) = 2
    /\ ledger[1].status = "pending"
    /\ ledger[2].status = "pending"
    /\ staging # {}

C39_PendingEventuallySettled ==
    \A k \in 1..MaxQueue :
        (Len(ledger) >= k /\ ledger[k].agent_id = agentId /\ ledger[k].status = "pending")
            ~> (Len(ledger) >= k /\ ledger[k].status \in {"success", "failed"})

\* C39 witness: every deployment queued for the agent has been settled, one
\* of them as success and one as failed
C39_Witness ==
    /\ running
    /\ Len(ledger) = MaxQueue
    /\ \A k \in 1..Len(ledger) : ledger[k].status \in {"success", "failed"}
    /\ \E k \in 1..Len(ledger) : ledger[k].status = "success"
    /\ \E k \in 1..Len(ledger) : ledger[k].status = "failed"

====
